---------------------------- MODULE Spec2Model ----------------------------
(***************************************************************************)
(* Model of the diary application's entry analytics and filtering engine   *)
(* (class DiaryApp of src/src/main.ts): applyFilters / parseJapaneseDate   *)
(* with renderEntries / createHighlightedElement, getContinuousDaysStats,  *)
(* getPostFrequencyStats, getCharacterTrends and getMoodStats, and the     *)
(* handlers that create, edit, delete and import entries, the backup, the  *)
(* file inputs and the templates of the form, and the reminder timers of   *)
(* the service worker (src/unnamed/part_001).                              *)
(*                                                                         *)
(* Time.  A JavaScript Date is an instant; the model counts it in whole    *)
(* seconds since 1970-01-01T00:00:00Z (the millisecond part is dropped:    *)
(* no comparison of the modelled code depends on it except against the     *)
(* 23:59:59 bound, which is itself a whole second).  The browser's time    *)
(* zone is a fixed offset tz, in seconds east of UTC.                      *)
(*                                                                         *)
(* Day strings.  'YYYY-MM-DD' (the value of a date input, and the result   *)
(* of toISOString().split('T')[0]) is represented by the number of that    *)
(* calendar day counted from 1970-01-01; the lexicographic order of the    *)
(* strings is the order of the numbers.                                    *)
(*                                                                         *)
(* Text.  A string is a sequence of one-character strings.                 *)
(***************************************************************************)
EXTENDS Integers, Sequences, FiniteSets, Bags, TLC

VARIABLES
    entries,            \* DiaryApp.entries
    tz,                 \* the browser's UTC offset in seconds (fixed)
    now,                \* the clock reading when the views were last computed
    searchInput,        \* searchInput.value
    dateFromInput,      \* dateFromInput.value: <<>> is '', <<d>> is a day
    dateToInput,        \* dateToInput.value
    currentSearchTerm,  \* DiaryApp.currentSearchTerm
    filteredEntries,    \* DiaryApp.filteredEntries
    searchResultsCount, \* searchResultsCount.textContent, as its numbers
    continuousStats,    \* what renderContinuousStats last got
    frequencyStats,     \* what renderPostFrequencyStats last got
    characterTrends,    \* what renderCharacterTrends last got
    moodStats,          \* what renderMoodStats last got
    selectedMood,       \* DiaryApp.selectedMood: 0 is undefined
    editingId,          \* DiaryApp.editingId: <<>> is undefined, else <<id>>
    diaryList,          \* the children of diaryList that show an entry
    renderError,        \* the last renderEntries ended in an exception
    storedEntries,      \* localStorage['diary-entries'], parsed
    selectedImages,     \* DiaryApp.selectedImages
    selectedAttachments,\* DiaryApp.selectedAttachments
    pendingReads,       \* the runs of handleImageUpload / handleFileUpload
                        \* that wait for a FileReader
    backup,             \* localStorage['diary-backup'], <<>> for none
    weekDate,           \* the day string last given to getWeekKey, <<>> for none
    weekKey,            \* what getWeekKey returned for it
    templates,          \* DiaryApp.templates
    storedTemplates,    \* localStorage['diary-templates'], <<>> for none
    workerNow,          \* the service worker's clock, in minutes of local time
    timers,             \* the bag of the worker's pending setTimeout calls
    shown,              \* the number of notifications shown, by day
    enabled,            \* the payload's flag in the last message
    shownDisabled       \* a notification was shown when enabled was false

\* what updateMoodFeatures renders
statViews == <<continuousStats, frequencyStats, characterTrends, moodStats>>

\* the state of the entry form
formState == <<selectedMood, editingId, selectedImages, selectedAttachments,
               pendingReads>>

\* what the handlers of the entries leave alone
weekState == <<weekDate, weekKey>>
templateState == <<templates, storedTemplates>>
workerState == <<workerNow, timers, shown, enabled, shownDisabled>>
background == <<backup, weekState, templateState, workerState>>

\* what renderEntries leaves
listView == <<diaryList, renderError>>

vars == <<entries, tz, now, searchInput, dateFromInput, dateToInput,
          currentSearchTerm, filteredEntries, searchResultsCount,
          statViews, formState, listView, storedEntries, background>>

---------------------------------------------------------------------------
(* Bounds of the model                                                     *)

\* longest entry collection drawn for the filter
MaxEntries == 3
\* longest stored collection drawn for the statistics
MaxStoredEntries == 2
\* addEntry lets the collection grow to this length
MaxStatEntries == 3
\* the posting days drawn for the streak lie in Day0 - MaxBack .. Day0
MaxBack == 3
\* the clock readings lie on the local days Day0 .. Day0 + MaxClockDays
MaxClockDays == 1
\* longest stored collection drawn for the character trend
MaxTrendEntries == 8
\* longest stored collection drawn for the mood statistics
MaxMoodEntries == 3

---------------------------------------------------------------------------
(* The calendar behind Date                                                *)

SecPerDay == 24 * 60 * 60

\* the day number of the proleptic Gregorian date y-m-d (m is 1-based)
DaysFromCivil(y, m, d) ==
    LET yy  == IF m <= 2 THEN y - 1 ELSE y
        era == yy \div 400
        yoe == yy - era * 400
        mp  == IF m > 2 THEN m - 3 ELSE m + 9
        doy == (153 * mp + 2) \div 5 + d - 1
        doe == yoe * 365 + yoe \div 4 - yoe \div 100 + doy
    IN  era * 146097 + doe - 719468

\* the inverse: the date of day number z
CivilFromDays(z) ==
    LET zz  == z + 719468
        era == zz \div 146097
        doe == zz - era * 146097
        yoe == (doe - doe \div 1460 + doe \div 36524 - doe \div 146096) \div 365
        doy == doe - (365 * yoe + yoe \div 4 - yoe \div 100)
        mp  == (5 * doy + 2) \div 153
        d   == doy - (153 * mp + 2) \div 5 + 1
        m   == IF mp < 10 THEN mp + 3 ELSE mp - 9
        y   == yoe + era * 400 + (IF m <= 2 THEN 1 ELSE 0)
    IN  [y |-> y, m |-> m, d |-> d]

\* new Date(year, monthIndex, day): midnight of that date in LOCAL time
NewDateLocal(year, monthIndex, day, zone) ==
    DaysFromCivil(year, monthIndex + 1, day) * SecPerDay - zone

\* new Date('YYYY-MM-DD'): a date-only string is midnight in UTC
NewDateFromDayString(dayString) == dayString * SecPerDay

\* new Date('YYYY-MM-DD' + 'T23:59:59'): a date-time string without an
\* offset is LOCAL time
NewDateEndOfDay(dayString, zone) ==
    dayString * SecPerDay + (23 * 3600 + 59 * 60 + 59) - zone

\* date.toISOString().split('T')[0]: the UTC calendar day of the instant
ToISODay(t) == t \div SecPerDay

\* the calendar day the instant falls on in the browser's time zone
LocalDay(t, zone) == (t + zone) \div SecPerDay

---------------------------------------------------------------------------
(* Entry.date, by the shapes the code tells apart                          *)
(*   long  : 'YYYY年M月D日...' as addEntry writes it (toLocaleDateString)  *)
(*   iso   : an ISO-8601 timestamp 'YYYY-MM-DDTHH:MM:SS.sssZ', instant t   *)
(*   kanji : text holding 年, 月 and 日 but no numerals for the pattern,   *)
(*           such as '令和六年一月十五日'                                  *)
(*   junk  : any other text, such as '' or 'yesterday'                     *)

LongDate(y, m, d) == [form |-> "long", y |-> y, m |-> m, d |-> d, t |-> 0]
IsoDate(t)        == [form |-> "iso", y |-> 0, m |-> 0, d |-> 0, t |-> t]
KanjiDate         == [form |-> "kanji", y |-> 0, m |-> 0, d |-> 0, t |-> 0]
JunkDate          == [form |-> "junk", y |-> 0, m |-> 0, d |-> 0, t |-> 0]

\* the date of an array element that has no date property: undefined
MissingDate       == [form |-> "undefined", y |-> 0, m |-> 0, d |-> 0,
                      t |-> 0]

\* the long form naming calendar day z
LongDateOfDay(z) ==
    LET c == CivilFromDays(z) IN LongDate(c.y, c.m, c.d)

\* dateString.match(/(\d{4})年(\d{1,2})月(\d{1,2})日/) succeeds
MatchesLongPattern(dateString) == dateString.form = "long"

\* dateString.includes('年') && includes('月') && includes('日')
IncludesKanjiMarks(dateString) == dateString.form \in {"long", "kanji"}

\* the time value of new Date(dateString); NaN for an Invalid Date
NaN == [nan |-> TRUE, t |-> 0]
IsNaN(v) == v.nan
Time(t) == [nan |-> FALSE, t |-> t]

NewDateFromText(dateString) ==
    IF dateString.form = "iso" THEN Time(dateString.t) ELSE NaN

\* parseJapaneseDate: the matched date at local midnight, else new Date()
parseJapaneseDate(dateString, clock, zone) ==
    IF MatchesLongPattern(dateString)
    THEN NewDateLocal(dateString.y, dateString.m - 1, dateString.d, zone)
    ELSE clock

---------------------------------------------------------------------------
(* Text                                                                    *)

LowerChar(c) ==
    CASE c = "A" -> "a"
      [] c = "B" -> "b"
      [] c = "C" -> "c"
      [] c = "D" -> "d"
      [] c = "E" -> "e"
      [] c = "H" -> "h"
      [] c = "W" -> "w"
      [] OTHER -> c

\* s.toLowerCase()
RECURSIVE ToLowerCase(_)
ToLowerCase(s) ==
    IF s = <<>> THEN <<>>
    ELSE <<LowerChar(Head(s))>> \o ToLowerCase(Tail(s))

RECURSIVE TrimStart(_)
TrimStart(s) ==
    IF s # <<>> /\ Head(s) = " " THEN TrimStart(Tail(s)) ELSE s

RECURSIVE TrimEnd(_)
TrimEnd(s) ==
    IF s # <<>> /\ s[Len(s)] = " "
    THEN TrimEnd(SubSeq(s, 1, Len(s) - 1))
    ELSE s

\* s.trim()
Trim(s) == TrimEnd(TrimStart(s))

\* s.includes(k)
Includes(s, k) ==
    \E i \in 1..(Len(s) - Len(k) + 1) : SubSeq(s, i, i + Len(k) - 1) = k

\* the least and the greatest of a set of numbers
Min(S) == CHOOSE x \in S : \A y \in S : x <= y
Max(S) == CHOOSE x \in S : \A y \in S : x >= y

\* the elements of a sequence
Range(seq) == { seq[i] : i \in 1..Len(seq) }

---------------------------------------------------------------------------
(* applyFilters                                                            *)

\* a keyword test that looks at the title alone
MatchesSearchInTitle(entry, searchTerm) ==
    \/ searchTerm = <<>>
    \/ Includes(ToLowerCase(entry.title), searchTerm)

\* matchesSearch: no term, or the term occurs in the lowered title or
\* content
MatchesSearch(entry, searchTerm) ==
    \/ searchTerm = <<>>
    \/ Includes(ToLowerCase(entry.title), searchTerm)
    \/ Includes(ToLowerCase(entry.content), searchTerm)

\* a callback whose from-date test is the wrong way round
MatchesFiltersFromFlipped(entry, searchTerm, dateFrom, dateTo, clock, zone) ==
    LET entryDate == parseJapaneseDate(entry.date, clock, zone)
    IN  /\ MatchesSearch(entry, searchTerm)
        /\ dateFrom = <<>> \/ entryDate <= NewDateFromDayString(dateFrom[1])
        /\ dateTo = <<>> \/ entryDate <= NewDateEndOfDay(dateTo[1], zone)

\* the callback of entries.filter(...) in applyFilters
MatchesFilters(entry, searchTerm, dateFrom, dateTo, clock, zone) ==
    LET matchesSearch == MatchesSearch(entry, searchTerm)
        entryDate == parseJapaneseDate(entry.date, clock, zone)
        matchesDateFrom ==
            \/ dateFrom = <<>>
            \/ entryDate >= NewDateFromDayString(dateFrom[1])
        matchesToDate ==
            \/ dateTo = <<>>
            \/ entryDate <= NewDateEndOfDay(dateTo[1], zone)
    IN  matchesSearch /\ matchesDateFrom /\ matchesToDate

\* a filter that hands its matches back newest-kept first
RECURSIVE ArrayFilterReversed(_, _, _, _, _, _)
ArrayFilterReversed(es, searchTerm, dateFrom, dateTo, clock, zone) ==
    IF es = <<>> THEN <<>>
    ELSE LET rest == ArrayFilterReversed(Tail(es), searchTerm, dateFrom,
                                         dateTo, clock, zone)
         IN  IF MatchesFilters(Head(es), searchTerm, dateFrom, dateTo,
                               clock, zone)
             THEN Append(rest, Head(es))
             ELSE rest

\* this.entries.filter(callback): the matching entries, in array order
RECURSIVE ArrayFilter(_, _, _, _, _, _)
ArrayFilter(es, searchTerm, dateFrom, dateTo, clock, zone) ==
    IF es = <<>> THEN <<>>
    ELSE LET rest == ArrayFilter(Tail(es), searchTerm, dateFrom, dateTo,
                                 clock, zone)
         IN  IF MatchesFilters(Head(es), searchTerm, dateFrom, dateTo,
                               clock, zone)
             THEN <<Head(es)>> \o rest
             ELSE rest

---------------------------------------------------------------------------
(* createHighlightedElement and renderEntries.  The pattern is the search  *)
(* term between parentheses, read as a regular expression with the flags   *)
(* g and i.  The terms the model draws are made of letters, spaces and the  *)
(* pattern characters '.', '|' and '(': a '.' stands for any character, a   *)
(* '|' separates alternatives that are tried from left to right, and a     *)
(* parenthesis that is not closed makes the pattern a SyntaxError.          *)

\* the depth of open parentheses after the term, or -1 once a ')' closes
\* none
RECURSIVE ParenDepth(_, _)
ParenDepth(term, depth) ==
    IF depth < 0 \/ term = <<>> THEN depth
    ELSE ParenDepth(Tail(term),
                    CASE Head(term) = "(" -> depth + 1
                      [] Head(term) = ")" -> depth - 1
                      [] OTHER -> depth)

\* new RegExp(`(${searchTerm})`, 'gi') throws a SyntaxError
PatternThrows(searchTerm) == ParenDepth(searchTerm, 0) # 0

\* the alternatives of the pattern: the parts of the term between '|'
RECURSIVE Alternatives(_, _)
Alternatives(term, current) ==
    IF term = <<>> THEN <<current>>
    ELSE IF Head(term) = "|"
         THEN <<current>> \o Alternatives(Tail(term), <<>>)
         ELSE Alternatives(Tail(term), Append(current, Head(term)))

\* one pattern character against one character of the text, case ignored
AtomMatches(atom, char) == atom = "." \/ LowerChar(atom) = LowerChar(char)

\* the alternative matches the text from offset q on
AlternativeMatchesAt(alternative, text, q) ==
    /\ q + Len(alternative) <= Len(text)
    /\ \A k \in 1..Len(alternative) :
           AtomMatches(alternative[k], text[q + k])

\* a match of the pattern that starts at offset q: <<>> for none, else
\* <<e>>, where the match of the first alternative that matches ends
MatchAt(alternatives, text, q) ==
    LET matching == { a \in 1..Len(alternatives) :
                        AlternativeMatchesAt(alternatives[a], text, q) }
    IN  IF matching = {} THEN <<>>
        ELSE <<q + Len(alternatives[Min(matching)])>>

\* the loop of text.split(regex): p is where the last piece ended, q where
\* a match is looked for; a match pushes the piece before it and, for the
\* capturing parentheses, the matched text
RECURSIVE SplitLoop(_, _, _, _, _)
SplitLoop(text, alternatives, p, q, parts) ==
    IF q >= Len(text)
    THEN Append(parts, SubSeq(text, p + 1, Len(text)))
    ELSE LET z == MatchAt(alternatives, text, q)
         IN  IF z = <<>> \/ z[1] = p
             THEN SplitLoop(text, alternatives, p, q + 1, parts)
             ELSE SplitLoop(text, alternatives, z[1], z[1],
                            parts \o <<SubSeq(text, p + 1, q),
                                       SubSeq(text, q + 1, z[1])>>)

\* text.split(regex)
Split(text, alternatives) ==
    IF Len(text) = 0
    THEN IF MatchAt(alternatives, text, 0) # <<>> THEN <<>> ELSE <<text>>
    ELSE SplitLoop(text, alternatives, 0, 0, <<>>)

\* the child a part becomes: a <mark> when the part is the term but for
\* case, else a text node
NodeOf(part, searchTerm) ==
    [text |-> part, isMatch |-> ToLowerCase(part) = ToLowerCase(searchTerm)]

\* a fragment whose parts are compared with the term as they are
ExactCaseFragment(text, searchTerm) ==
    IF searchTerm = <<>>
    THEN [threw |-> FALSE, nodes |-> <<[text |-> text, isMatch |-> FALSE]>>]
    ELSE IF PatternThrows(searchTerm)
    THEN [threw |-> TRUE, nodes |-> <<>>]
    ELSE LET parts == Split(text, Alternatives(searchTerm, <<>>))
         IN  [threw |-> FALSE,
              nodes |-> [k \in 1..Len(parts) |->
                            [text |-> parts[k],
                             isMatch |-> parts[k] = searchTerm]]]

\* createHighlightedElement: the children of the fragment, or the
\* exception
createHighlightedElement(text, searchTerm) ==
    IF searchTerm = <<>>
    THEN [threw |-> FALSE, nodes |-> <<[text |-> text, isMatch |-> FALSE]>>]
    ELSE IF PatternThrows(searchTerm)
    THEN [threw |-> TRUE, nodes |-> <<>>]
    ELSE LET parts == Split(text, Alternatives(searchTerm, <<>>))
         IN  [threw |-> FALSE,
              nodes |-> [k \in 1..Len(parts) |->
                            NodeOf(parts[k], searchTerm)]]

\* the forEach of renderEntries over the filtered entries: the list built
\* so far, until a fragment throws
RECURSIVE RenderLoop(_, _, _)
RenderLoop(filtered, searchTerm, list) ==
    IF filtered = <<>> THEN [threw |-> FALSE, list |-> list]
    ELSE LET title == createHighlightedElement(Head(filtered).title,
                                               searchTerm)
             content == createHighlightedElement(Head(filtered).content,
                                                 searchTerm)
         IN  IF title.threw \/ content.threw
             THEN [threw |-> TRUE, list |-> list]
             ELSE RenderLoop(Tail(filtered), searchTerm,
                             Append(list, [id |-> Head(filtered).id,
                                           title |-> title.nodes,
                                           content |-> content.nodes]))

\* renderEntries: the list is emptied and built again
renderEntries(filtered, searchTerm) == RenderLoop(filtered, searchTerm, <<>>)

\* the search term applyFilters derives from the search box
SearchTermOf(searchValue) == Trim(ToLowerCase(searchValue))

\* updateSearchResultsCount: 'filtered件 / total件', or 'total件' when no
\* filter is set
ResultsCountText(es, filtered, searchTerm, dateFrom, dateTo) ==
    IF searchTerm # <<>> \/ dateFrom # <<>> \/ dateTo # <<>>
    THEN <<Len(filtered), Len(es)>>
    ELSE <<Len(es)>>

\* the callback of the filter calls parseJapaneseDate(entry.date) for
\* every entry, and dateString.match throws a TypeError for undefined
FilterThrows(es) == \E i \in 1..Len(es) : es[i].date = MissingDate

\* applyFilters, run at clock reading t with the inputs as given; an
\* exception of the filter leaves what the earlier run made
applyFilters(t, searchValue, dateFrom, dateTo) ==
    /\ currentSearchTerm' = SearchTermOf(searchValue)
    /\ IF FilterThrows(entries')
       THEN UNCHANGED <<filteredEntries, searchResultsCount, diaryList,
                        renderError>>
       ELSE /\ filteredEntries' = ArrayFilter(entries', currentSearchTerm',
                                              dateFrom, dateTo, t, tz)
            /\ searchResultsCount' =
                   ResultsCountText(entries', filteredEntries',
                                    currentSearchTerm', dateFrom, dateTo)
            /\ \E rendered \in { renderEntries(filteredEntries',
                                                currentSearchTerm') } :
                   /\ diaryList' = rendered.list
                   /\ renderError' = rendered.threw

\* applyFilters ended in an exception, of the filter or of renderEntries
FiltersThrew == FilterThrows(entries') \/ renderError'

---------------------------------------------------------------------------
(* The date the statistics give an entry                                   *)

\* the branch shared by getPostFrequencyStats, getCharacterTrends and
\* getContinuousDaysStats: parseJapaneseDate for text holding 年, 月 and
\* 日, new Date(entry.date) for any other text
StatsDate(dateString, clock, zone) ==
    IF IncludesKanjiMarks(dateString)
    THEN Time(parseJapaneseDate(dateString, clock, zone))
    ELSE NewDateFromText(dateString)

---------------------------------------------------------------------------
(* getContinuousDaysStats                                                  *)

\* [...new Set(validDates)].sort()
RECURSIVE SortedUnique(_)
SortedUnique(S) ==
    IF S = {} THEN <<>>
    ELSE <<Min(S)>> \o SortedUnique(S \ {Min(S)})

\* validDates: the day string of every entry whose date is not NaN
ValidDates(es, clock, zone) ==
    { ToISODay(StatsDate(es[i].date, clock, zone).t) :
        i \in { j \in 1..Len(es) :
                   ~IsNaN(StatsDate(es[j].date, clock, zone)) } }

\* the number of days between two day strings, as the loops compute it
DayDiffIsOne(prev, curr) ==
    NewDateFromDayString(curr) - NewDateFromDayString(prev) = SecPerDay

\* the loop for the longest streak, from index i on, followed by the
\* last-streak check
RECURSIVE MaxStreakLoop(_, _, _, _)
MaxStreakLoop(uniqueDates, i, currentStreak, maxStreak) ==
    IF i > Len(uniqueDates)
    THEN IF currentStreak > maxStreak THEN currentStreak ELSE maxStreak
    ELSE IF DayDiffIsOne(uniqueDates[i - 1], uniqueDates[i])
         THEN MaxStreakLoop(uniqueDates, i + 1, currentStreak + 1, maxStreak)
         ELSE MaxStreakLoop(uniqueDates, i + 1, 1,
                            IF currentStreak > maxStreak
                            THEN currentStreak ELSE maxStreak)

\* the backward loop for the active streak, from index i down: the pair
\* <<currentActiveStreak, activeStreakStart>>
RECURSIVE ActiveStreakLoop(_, _, _, _)
ActiveStreakLoop(uniqueDates, i, currentActiveStreak, activeStreakStart) ==
    IF i < 1 THEN <<currentActiveStreak, activeStreakStart>>
    ELSE IF DayDiffIsOne(uniqueDates[i], uniqueDates[i + 1])
         THEN ActiveStreakLoop(uniqueDates, i - 1, currentActiveStreak + 1,
                               <<uniqueDates[i]>>)
         ELSE <<currentActiveStreak, activeStreakStart>>

\* the result for no entries, and for no valid date (null is <<>>)
EmptyStreakStats ==
    [currentStreak |-> 0, maxStreak |-> 0, lastPostDate |-> <<>>,
     streakStartDate |-> <<>>, totalDaysPosted |-> 0]

getContinuousDaysStats(es, clock, zone) ==
    IF Len(es) = 0 THEN EmptyStreakStats
    ELSE
    LET uniqueDates == SortedUnique(ValidDates(es, clock, zone)) IN
    IF Len(uniqueDates) = 0 THEN EmptyStreakStats
    ELSE
    LET maxStreak    == MaxStreakLoop(uniqueDates, 2, 1, 0)
        today        == clock
        yesterday    == today - SecPerDay
        lastPostDate == uniqueDates[Len(uniqueDates)]
        active ==
            IF \/ lastPostDate = ToISODay(today)
               \/ lastPostDate = ToISODay(yesterday)
            THEN ActiveStreakLoop(uniqueDates, Len(uniqueDates) - 1, 1,
                                  <<lastPostDate>>)
            ELSE <<0, <<>>>>
    IN  [currentStreak   |-> active[1],
         maxStreak       |-> maxStreak,
         lastPostDate    |-> <<lastPostDate>>,
         streakStartDate |-> active[2],
         totalDaysPosted |-> Len(uniqueDates)]

---------------------------------------------------------------------------
(* getPostFrequencyStats: the daily buckets, the total and the average    *)

\* the window reaches back 30 days from the clock reading
WindowDays == 30

\* the keys of frequencyData: one per step of 24 hours from thirtyDaysAgo
WindowKeys(clock) ==
    LET thirtyDaysAgo == clock - WindowDays * SecPerDay
    IN  { ToISODay(thirtyDaysAgo + i * SecPerDay) : i \in 0..WindowDays }

\* the forEach over the entries: frequencyData[dateStr]++ for a valid
\* date whose day string is a key
RECURSIVE CountPosts(_, _, _, _)
CountPosts(es, frequencyData, clock, zone) ==
    IF es = <<>> THEN frequencyData
    ELSE LET entryDate == StatsDate(Head(es).date, clock, zone)
             dateStr   == ToISODay(entryDate.t)
             counted   ==
                 IF ~IsNaN(entryDate) /\ dateStr \in DOMAIN frequencyData
                 THEN [frequencyData EXCEPT ![dateStr] = @ + 1]
                 ELSE frequencyData
         IN  CountPosts(Tail(es), counted, clock, zone)

\* a / b as JavaScript computes it on numbers, kept as the fraction; the
\* quotient of 0 by 0 would be NaN
Quotient(a, b) == [num |-> a, den |-> b]

\* the number n
Number(n) == [num |-> n, den |-> 1]

\* the sum of the values of the map f over the keys S
RECURSIVE SumOver(_, _)
SumOver(f, S) ==
    IF S = {} THEN 0
    ELSE LET x == CHOOSE y \in S : TRUE IN f[x] + SumOver(f, S \ {x})

\* statistics whose total and average are taken from the buckets alone
WindowedFrequencyStats(es, clock, zone) ==
    LET frequencyData == CountPosts(es, [k \in WindowKeys(clock) |-> 0],
                                    clock, zone)
        counted == SumOver(frequencyData, DOMAIN frequencyData)
    IN  [daily         |-> frequencyData,
         totalPosts    |-> counted,
         averagePerDay |->
             IF counted > 0
             THEN Quotient(counted, Cardinality(DOMAIN frequencyData))
             ELSE Number(0)]

getPostFrequencyStats(es, clock, zone) ==
    LET frequencyData == CountPosts(es, [k \in WindowKeys(clock) |-> 0],
                                    clock, zone)
    IN  [daily         |-> frequencyData,
         totalPosts    |-> Len(es),
         averagePerDay |->
             IF Len(es) > 0
             THEN Quotient(Len(es), Cardinality(DOMAIN frequencyData))
             ELSE Number(0)]

---------------------------------------------------------------------------
(* getCharacterTrends                                                      *)

\* Math.round of a fraction that is not negative: halves go up
MathRound(q) == (2 * q.num + q.den) \div (2 * q.den)

\* text for which parseJapaneseDate is called and reads the clock: every
\* call gives the reading of its own moment
ClockDated(dateString) ==
    IncludesKanjiMarks(dateString) /\ ~MatchesLongPattern(dateString)

\* the callback of entries.filter(...): the date is not NaN
TrendKept(es, clock, zone) ==
    SelectSeq(es, LAMBDA entry : ~IsNaN(StatsDate(entry.date, clock, zone)))

\* getDateForSort(dateStr).getTime()
SortTime(dateString, clock, zone) == StatsDate(dateString, clock, zone).t

\* the place a stable sort gives entry among the entries sorted so far
RECURSIVE InsertByTime(_, _, _, _)
InsertByTime(sorted, entry, clock, zone) ==
    IF sorted = <<>> THEN <<entry>>
    ELSE LET last == sorted[Len(sorted)]
             front == SubSeq(sorted, 1, Len(sorted) - 1)
         IN  IF SortTime(last.date, clock, zone)
                  <= SortTime(entry.date, clock, zone)
             THEN Append(sorted, entry)
             ELSE Append(InsertByTime(front, entry, clock, zone), last)

\* .sort((a, b) => time(a) - time(b)) with a comparator that answers the
\* same every time: ascending, entries of equal time in array order
RECURSIVE SortByTime(_, _, _)
SortByTime(es, clock, zone) ==
    IF es = <<>> THEN <<>>
    ELSE InsertByTime(SortByTime(SubSeq(es, 1, Len(es) - 1), clock, zone),
                      es[Len(es)], clock, zone)

\* the orders .sort may leave: the comparator reads the clock anew for
\* every clock-dated text, so two such entries may come out either way
\* round
SortOrders(es, clock, zone) ==
    LET stable == SortByTime(es, clock, zone)
        moving == { i \in 1..Len(stable) : ClockDated(stable[i].date) }
    IN  { [i \in 1..Len(stable) |->
              IF i \in moving THEN stable[f[i]] ELSE stable[i]] :
            f \in Permutations(moving) }

\* (entry.title?.length || 0) + (entry.content?.length || 0)
TotalChars(entry) == Len(entry.title) + Len(entry.content)

\* the element forEach pushes for an entry
TrendOf(entry) ==
    [date |-> entry.date, count |-> TotalChars(entry), title |-> entry.title]

\* counts.reduce((sum, count) => sum + count, 0)
RECURSIVE SumCounts(_)
SumCounts(counts) ==
    IF counts = <<>> THEN 0 ELSE Head(counts) + SumCounts(Tail(counts))

\* the recent part of the series is its last seven elements
RecentCount == 7

\* the first elements of the series, at most seven
FirstTrends(trends) ==
    SubSeq(trends, 1,
           IF Len(trends) < RecentCount THEN Len(trends) ELSE RecentCount)

\* trends.slice(-7): the last elements of the series, at most seven
RecentTrends(trends) ==
    SubSeq(trends,
           IF Len(trends) > RecentCount
           THEN Len(trends) - RecentCount + 1 ELSE 1,
           Len(trends))

\* the statistics of a series
TrendStats(trends) ==
    LET counts == [i \in 1..Len(trends) |-> trends[i].count]
        recentTrends == RecentTrends(trends)
        recentCounts ==
            [i \in 1..Len(recentTrends) |-> recentTrends[i].count]
        averageCharCount ==
            IF Len(counts) > 0
            THEN Quotient(SumCounts(counts), Len(counts))
            ELSE Number(0)
        recentAverage ==
            IF Len(recentTrends) > 0
            THEN Quotient(SumCounts(recentCounts), Len(recentTrends))
            ELSE Number(0)
    IN  [trends           |-> trends,
         averageCharCount |-> MathRound(averageCharCount),
         maxCharCount     |->
             IF Len(counts) > 0 THEN Max(Range(counts)) ELSE 0,
         minCharCount     |->
             IF Len(counts) > 0 THEN Min(Range(counts)) ELSE 0,
         recentAverage    |-> MathRound(recentAverage),
         totalEntries     |-> Len(trends)]

\* getCharacterTrends: the results the call may return
getCharacterTrends(es, clock, zone) ==
    { TrendStats([i \in 1..Len(sorted) |-> TrendOf(sorted[i])]) :
        sorted \in SortOrders(TrendKept(es, clock, zone), clock, zone) }

---------------------------------------------------------------------------
(* getMoodStats                                                            *)

\* a test that takes every mood for a rating
MoodAlwaysSet(mood) == TRUE

\* if (entry.mood): a rating; 0 stands for a mood that is not set
MoodSet(mood) == mood # 0

\* the forEach over the entries: moodCounts[entry.mood]++ for a set mood
RECURSIVE CountMoods(_, _)
CountMoods(es, moodCounts) ==
    IF es = <<>> THEN moodCounts
    ELSE LET mood == Head(es).mood
             counted ==
                 IF ~MoodSet(mood) THEN moodCounts
                 ELSE IF mood \in DOMAIN moodCounts
                      THEN [moodCounts EXCEPT ![mood] = @ + 1]
                      ELSE [m \in DOMAIN moodCounts \cup {mood} |->
                               IF m = mood THEN 1 ELSE moodCounts[m]]
         IN  CountMoods(Tail(es), counted)

\* Object.entries(moodCounts).reduce((sum, [mood, count]) =>
\*     sum + parseInt(mood) * count, 0); the key of a whole-number rating
\* is its decimal text, which parseInt reads back as the rating
RECURSIVE WeightedSum(_, _)
WeightedSum(moodCounts, moods) ==
    IF moods = {} THEN 0
    ELSE LET mood == CHOOSE m \in moods : TRUE
         IN  mood * moodCounts[mood]
               + WeightedSum(moodCounts, moods \ {mood})

\* statistics whose total counts every entry, rated or not
MoodStatsOverAll(es) ==
    LET moodCounts == CountMoods(es, <<>>)
        totalEntries == Len(es)
    IN  [counts  |-> moodCounts,
         total   |-> totalEntries,
         average |->
             IF totalEntries > 0
             THEN Quotient(WeightedSum(moodCounts, DOMAIN moodCounts),
                           totalEntries)
             ELSE Number(0)]

getMoodStats(es) ==
    LET moodCounts == CountMoods(es, <<>>)
        totalEntries == Len(SelectSeq(es, LAMBDA entry : MoodSet(entry.mood)))
    IN  [counts  |-> moodCounts,
         total   |-> totalEntries,
         average |->
             IF totalEntries > 0
             THEN Quotient(WeightedSum(moodCounts, DOMAIN moodCounts),
                           totalEntries)
             ELSE Number(0)]

---------------------------------------------------------------------------
(* The inputs the model draws                                              *)

\* the browser's UTC offset: New York (winter), UTC, Tokyo
Offsets == {0 - 5 * 3600, 0, 9 * 3600}

\* the calendar day the model is centred on
Day0 == DaysFromCivil(2024, 3, 15)

\* local times of day, in hours, at which a handler may run
ClockHours == {1, 20}

ClockReadings(zone) ==
    { (Day0 + k) * SecPerDay + h * 3600 - zone :
        k \in 0..MaxClockDays, h \in ClockHours }

Entry(id, title, content, date, mood) ==
    [id |-> id, title |-> title, content |-> content, date |-> date,
     mood |-> mood, images |-> <<>>, attachments |-> <<>>]

\* sequences over S of length at most n
SeqsUpTo(S, n) == UNION { [1..k -> S] : k \in 0..n }

\* the entries a stored or imported collection for the filter is made of
FilterPool ==
    { Entry(1, <<"A", "b">>, <<"c">>, LongDateOfDay(Day0), 0),
      Entry(2, <<"c">>, <<"a", "B">>, LongDateOfDay(Day0 - 1), 0),
      Entry(3, <<"b">>, <<"c">>, LongDateOfDay(Day0 + 1), 0),
      Entry(4, <<"a">>, <<"c">>, IsoDate((Day0 - 1) * SecPerDay + 12 * 3600), 0),
      Entry(5, <<"c">>, <<"b">>, JunkDate, 0) }

FilterCollections ==
    { es \in SeqsUpTo(FilterPool, MaxEntries) :
        \A i, j \in 1..Len(es) : i # j => es[i].id # es[j].id }

SearchValues == { <<>>, <<" ">>, <<"A">>, <<"a", "b", " ">> }
DateFromValues == { <<>>, <<Day0>>, <<Day0 + 1>> }
DateToValues == { <<>>, <<Day0 - 1>>, <<Day0>> }

---------------------------------------------------------------------------
(* The handlers                                                            *)

\* updateMoodFeatures, run at clock reading t: the statistics are computed
\* again from the collection
updateMoodFeatures(t) ==
    /\ continuousStats' = getContinuousDaysStats(entries', t, tz)
    /\ frequencyStats' = getPostFrequencyStats(entries', t, tz)
    /\ characterTrends' \in getCharacterTrends(entries', t, tz)
    /\ moodStats' = getMoodStats(entries')

\* saveEntries
saveEntries == storedEntries' = entries'

\* a run of an upload handler that waits for a reader: the files it still
\* has to read, the first of them in the reader, and, for the record,
\* whether the form was cleared since the files were picked
Upload(kind, files, cleared) ==
    [kind |-> kind, files |-> files, cleared |-> cleared]

\* clearForm: the mood selection and the selected files are dropped with
\* the fields; the runs that wait for a reader go on (the record notes
\* that they were started for a form since cleared)
clearForm ==
    /\ selectedMood' = 0
    /\ selectedImages' = <<>>
    /\ selectedAttachments' = <<>>
    /\ pendingReads' = { Upload(u.kind, u.files, TRUE) : u \in pendingReads }

\* the constructor: loadEntries from what is stored, updateMoodFeatures,
\* applyFilters with the empty search box and date inputs
Page(stored, zone, t) ==
    /\ tz = zone
    /\ now = t
    /\ storedEntries = stored
    /\ entries = stored
    /\ searchInput = <<>>
    /\ dateFromInput = <<>>
    /\ dateToInput = <<>>
    /\ currentSearchTerm = <<>>
    /\ filteredEntries = ArrayFilter(stored, <<>>, <<>>, <<>>, t, zone)
    /\ searchResultsCount = <<Len(stored)>>
    /\ continuousStats = getContinuousDaysStats(stored, t, zone)
    /\ frequencyStats = getPostFrequencyStats(stored, t, zone)
    /\ characterTrends \in getCharacterTrends(stored, t, zone)
    /\ moodStats = getMoodStats(stored)
    /\ selectedMood = 0
    /\ editingId = <<>>
    /\ selectedImages = <<>>
    /\ selectedAttachments = <<>>
    /\ pendingReads = {}
    /\ diaryList = renderEntries(stored, <<>>).list
    /\ renderError = FALSE

\* a template; createdAt, which nothing reads, is left out
Template(id, name, title, content, type) ==
    [id |-> id, name |-> name, title |-> title, content |-> content,
     type |-> type]

\* presetTemplates: the names, titles and contents are Japanese texts,
\* written here as one token each
presetTemplates ==
    << Template("daily-reflection", <<"n1">>, <<"t1">>, <<"c1">>, "preset"),
       Template("gratitude-diary", <<"n2">>, <<"t2">>, <<"c2">>, "preset"),
       Template("work-log", <<"n3">>, <<"t3">>, <<"c3">>, "preset"),
       Template("health-log", <<"n4">>, <<"t4">>, <<"c4">>, "preset"),
       Template("learning-log", <<"n5">>, <<"t5">>, <<"c5">>, "preset") >>

\* loadTemplates where nothing is stored under 'diary-templates'
LoadedTemplates ==
    /\ templates = presetTemplates
    /\ storedTemplates = <<>>

\* getWeekKey not called yet
NoWeek ==
    /\ weekDate = <<>>
    /\ weekKey = <<>>

\* the days the service worker is followed over
MaxWorkerDays == 2

\* the service worker installed: no message received, no timer set
Installed ==
    /\ workerNow = 0
    /\ timers = EmptyBag
    /\ shown = [day \in 0..MaxWorkerDays |-> 0]
    /\ enabled = TRUE
    /\ shownDisabled = FALSE

\* the page constructed where no backup was made
Constructed(stored, zone, t) ==
    /\ Page(stored, zone, t)
    /\ backup = <<>>
    /\ NoWeek
    /\ LoadedTemplates
    /\ Installed

\* the clock readings a handler of the filter may run at, not before the
\* last one
FilterClock ==
    { u \in { (Day0 + k) * SecPerDay + 10 * 3600 - tz : k \in 0..MaxClockDays } :
        u >= now }

\* the 'input' listener of the search box, run at clock reading t with
\* value typed
SearchInput(t, value) ==
        /\ now' = t
        /\ searchInput' = value
        /\ UNCHANGED <<entries, tz, background, dateFromInput, dateToInput, statViews, formState,
                       storedEntries>>
        /\ applyFilters(t, value, dateFromInput, dateToInput)

SearchInputEvent ==
    \E t \in FilterClock, value \in SearchValues : SearchInput(t, value)

\* the 'change' listener of the from-date input
DateFromChange ==
    \E t \in FilterClock, value \in DateFromValues :
        /\ now' = t
        /\ dateFromInput' = value
        /\ UNCHANGED <<entries, tz, background, searchInput, dateToInput, statViews, formState,
                       storedEntries>>
        /\ applyFilters(t, searchInput, value, dateToInput)

\* the 'change' listener of the to-date input
DateToChange ==
    \E t \in FilterClock, value \in DateToValues :
        /\ now' = t
        /\ dateToInput' = value
        /\ UNCHANGED <<entries, tz, background, searchInput, dateFromInput, statViews, formState,
                       storedEntries>>
        /\ applyFilters(t, searchInput, dateFromInput, value)

\* clearFilters
ClearFilters ==
    \E t \in FilterClock :
        /\ now' = t
        /\ searchInput' = <<>>
        /\ dateFromInput' = <<>>
        /\ dateToInput' = <<>>
        /\ UNCHANGED <<entries, tz, background, statViews, formState, storedEntries>>
        /\ applyFilters(t, <<>>, <<>>, <<>>)

---------------------------------------------------------------------------
(* The filter: a stored collection, and the user working the search box    *)
(* and the date inputs                                                     *)

InitFilter ==
    \E stored \in FilterCollections, zone \in Offsets :
        Constructed(stored, zone, Day0 * SecPerDay + 10 * 3600 - zone)

NextFilter ==
    \/ SearchInputEvent
    \/ DateFromChange
    \/ DateToChange
    \/ ClearFilters

SpecFilter == InitFilter /\ [][NextFilter]_vars

---------------------------------------------------------------------------
(* The search box with keywords that hold pattern characters, over entries *)
(* that hold them too                                                      *)

SearchPool ==
    { Entry(1, <<"H", "e", "l", "l", "o", " ", "W", "o", "r", "l", "d">>,
            <<"o">>, LongDateOfDay(Day0), 0),
      Entry(2, <<"a", "|", "b">>, <<"(", "a">>, LongDateOfDay(Day0), 0),
      Entry(3, <<"a", "b">>, <<"a", ".", "b">>, LongDateOfDay(Day0), 0) }

SearchCollections ==
    { es \in SeqsUpTo(SearchPool, MaxEntries) :
        \A i, j \in 1..Len(es) : i # j => es[i].id # es[j].id }

KeywordValues ==
    { <<>>, <<"W", "o", "r", "l", "d">>, <<"o">>, <<"a">>, <<".">>,
      <<"a", "|", "b">>, <<"(">> }

KeywordInputEvent ==
    \E t \in FilterClock, value \in KeywordValues : SearchInput(t, value)

InitSearch ==
    \E stored \in SearchCollections, zone \in Offsets :
        Constructed(stored, zone, Day0 * SecPerDay + 10 * 3600 - zone)

NextSearch ==
    \/ KeywordInputEvent
    \/ ClearFilters

SpecSearch == InitSearch /\ [][NextSearch]_vars

---------------------------------------------------------------------------
(* Properties of the filter                                                *)

\* the indices of the entries the filter's predicates accept, under the
\* inputs and the clock reading of the last run
Accepted ==
    { i \in 1..Len(entries) :
        MatchesFilters(entries[i], currentSearchTerm, dateFromInput,
                       dateToInput, now, tz) }

\* the k-th smallest element of a set of numbers
Nth(S, k) == CHOOSE i \in S : Cardinality({ j \in S : j <= i }) = k

\* C1: filteredEntries is exactly the accepted entries, each once and in
\* the order they have in the collection; with an empty (or blank) search
\* box and no date it is the whole collection and the count shown is the
\* total.
C1_FilterIsOrderedSubsequence ==
    /\ Len(filteredEntries) = Cardinality(Accepted)
    /\ \A k \in 1..Len(filteredEntries) :
           filteredEntries[k] = entries[Nth(Accepted, k)]
    /\ (Trim(searchInput) = <<>> /\ dateFromInput = <<>> /\ dateToInput = <<>>)
           => /\ filteredEntries = entries
              /\ searchResultsCount = <<Len(entries)>>

\* a run of the filter that dropped the middle one of three entries
C1_Witness ==
    /\ Len(entries) = 3
    /\ filteredEntries = <<entries[1], entries[3]>>
    /\ currentSearchTerm # <<>>

Unparseable(dateString) == dateString.form \in {"kanji", "junk"}

\* C2: an entry whose date text is in neither format is left out whenever
\* a date bound is set, and is kept, subject to the keyword test alone,
\* when none is.
C2_UnparseableExcludedUnderBounds ==
    \A i \in 1..Len(entries) :
        Unparseable(entries[i].date) =>
            IF dateFromInput # <<>> \/ dateToInput # <<>>
            THEN entries[i] \notin Range(filteredEntries)
            ELSE entries[i] \in Range(filteredEntries)
                    <=> MatchesSearch(entries[i], currentSearchTerm)

\* C3: for an entry in the long form, the bounds are inclusive on whole
\* calendar days in every time zone: it is kept exactly when it passes
\* the keyword test, its day is not before the from-date and not after
\* the to-date.
C3_BoundsInclusiveOnCalendarDays ==
    \A i \in 1..Len(entries) :
        entries[i].date.form = "long" =>
            LET day == DaysFromCivil(entries[i].date.y, entries[i].date.m,
                                     entries[i].date.d)
            IN  entries[i] \in Range(filteredEntries)
                  <=> /\ MatchesSearch(entries[i], currentSearchTerm)
                      /\ dateFromInput = <<>> \/ day >= dateFromInput[1]
                      /\ dateToInput = <<>> \/ day <= dateToInput[1]

\* C4: parsing a date text that is in neither format gives the same
\* result whenever it is done: the parse of the handler that ran last and
\* the parse of the handler running next agree.
C4_UnparseableIsNotTheClock ==
    [][\A i \in 1..Len(entries) :
          Unparseable(entries[i].date) =>
              parseJapaneseDate(entries[i].date, now, tz)
                = parseJapaneseDate(entries[i].date, now', tz)]_vars

\* C5: an entry dated by an ISO-8601 timestamp is kept or rejected as the
\* same entry dated in the long form with the timestamp's calendar day
\* would be.
C5_IsoFilteredLikeLongForm ==
    \A i \in 1..Len(entries) :
        entries[i].date.form = "iso" =>
            LET sameDay == [entries[i] EXCEPT
                              !.date = LongDateOfDay(LocalDay(@.t, tz))]
            IN  entries[i] \in Range(filteredEntries)
                  <=> MatchesFilters(sameDay, currentSearchTerm,
                                     dateFromInput, dateToInput, now, tz)

---------------------------------------------------------------------------
(* The statistics: a stored collection, and the user adding, deleting and  *)
(* importing entries; the search box and the date inputs stay empty        *)

\* the date texts a stored collection for the statistics is made of: the
\* long form for the days Day0 - MaxBack .. Day0 and for the day 30 days
\* before Day0, an ISO timestamp (03:00 UTC of Day0), and the two kinds of
\* text in neither format
StatDates ==
    { LongDateOfDay(Day0 - k) : k \in 0..MaxBack }
      \cup { LongDateOfDay(Day0 - WindowDays) }
      \cup { IsoDate(Day0 * SecPerDay + 3 * 3600) }
      \cup { KanjiDate, JunkDate }

\* the collection whose i-th entry has the i-th date text
EntriesDated(dates) ==
    [i \in 1..Len(dates) |-> Entry(i, <<"a">>, <<"b">>, dates[i], 0)]

StatCollections ==
    { EntriesDated(dates) : dates \in SeqsUpTo(StatDates, MaxStoredEntries) }

\* the collections an imported file may hold
ImportCollections ==
    { EntriesDated(dates) :
        dates \in SeqsUpTo({ LongDateOfDay(Day0 - 1),
                             IsoDate(Day0 * SecPerDay + 3 * 3600),
                             KanjiDate }, 1) }

\* what the user may have typed into the title and the content field
FormTexts == { <<" ">>, <<"a", " ">> }

\* a test that looks at the title alone
RejectedOnTitle(title, content) == title = <<>>

\* !(title && content), !title || !content: a field is empty once trimmed
Rejected(title, content) == title = <<>> \/ content = <<>>

\* the clock readings a handler may run at, not before the last one
StatClock == { u \in ClockReadings(tz) : u >= now }

\* entry.id of a new entry: Date.now().toString(), the clock reading
\* itself, so that two calls within one reading give the same id
NewId(t) == t

\* the form's submit listener in create mode: addEntry; with a blank
\* title or content it alerts and returns
AddEntry ==
    \E t \in StatClock, titleValue \in FormTexts, contentValue \in FormTexts :
        LET title   == Trim(titleValue)
            content == Trim(contentValue)
            entry   == [Entry(NewId(t), title, content,
                              LongDateOfDay(LocalDay(t, tz)), selectedMood)
                           EXCEPT !.images = selectedImages,
                                  !.attachments = selectedAttachments]
        IN  /\ editingId = <<>>
            /\ Len(entries) < MaxStatEntries
            /\ IF Rejected(title, content)
               THEN UNCHANGED vars
               ELSE /\ now' = t
                    /\ UNCHANGED <<tz, background, searchInput, dateFromInput,
                                   dateToInput, editingId>>
                    /\ entries' = <<entry>> \o entries
                    /\ saveEntries
                    /\ updateMoodFeatures(t)
                    /\ applyFilters(t, searchInput, dateFromInput,
                                    dateToInput)
                    /\ IF FiltersThrew
                       THEN UNCHANGED <<selectedMood, selectedImages,
                                        selectedAttachments, pendingReads>>
                       ELSE clearForm

\* deleteEntry(id), confirmed or cancelled at the prompt
DeleteEntry ==
    \E t \in StatClock, i \in 1..Len(entries), confirmed \in BOOLEAN :
        IF confirmed
        THEN /\ now' = t
             /\ UNCHANGED <<tz, background, searchInput, dateFromInput, dateToInput,
                            formState>>
             /\ entries' = SelectSeq(entries,
                                     LAMBDA e : e.id # entries[i].id)
             /\ saveEntries
             /\ updateMoodFeatures(t)
             /\ applyFilters(t, searchInput, dateFromInput, dateToInput)
        ELSE UNCHANGED vars

\* importFromFile's reader.onload for a file whose entries are the array
\* imported, confirmed at the prompt, at clock reading t
Imported(t, imported) ==
        /\ now' = t
        /\ UNCHANGED <<tz, background, searchInput, dateFromInput, dateToInput,
                       formState>>
        /\ entries' = imported
        /\ saveEntries
        /\ updateMoodFeatures(t)
        /\ applyFilters(t, searchInput, dateFromInput, dateToInput)

ImportFromFile ==
    \E t \in StatClock, imported \in ImportCollections :
        Imported(t, imported)

InitStats ==
    \E stored \in StatCollections, zone \in Offsets :
        \E t \in ClockReadings(zone) : Constructed(stored, zone, t)

NextStats ==
    \/ AddEntry
    \/ DeleteEntry
    \/ ImportFromFile

SpecStats == InitStats /\ [][NextStats]_vars

---------------------------------------------------------------------------
(* The character trend: a stored collection long enough for the series to  *)
(* have more than seven elements, and the user importing short files and   *)
(* adding entries                                                          *)

\* the two kinds of entry of such a collection: two characters dated the
\* day before Day0 in the long form, and five characters dated by a
\* timestamp on Day0
TrendKinds ==
    { [title |-> <<"a">>, content |-> <<"b">>,
       date |-> LongDateOfDay(Day0 - 1)],
      [title |-> <<"A", "B">>, content |-> <<"C", "D", "E">>,
       date |-> IsoDate(Day0 * SecPerDay + 3 * 3600)] }

EntriesOfKinds(kinds) ==
    [i \in 1..Len(kinds) |->
        Entry(i, kinds[i].title, kinds[i].content, kinds[i].date, 0)]

TrendCollections ==
    { EntriesOfKinds(kinds) : kinds \in SeqsUpTo(TrendKinds, MaxTrendEntries) }

\* the files imported here hold one entry at most
TrendFiles == { es \in TrendCollections : Len(es) <= 1 }

ImportTrendFile ==
    \E t \in StatClock, imported \in TrendFiles : Imported(t, imported)

InitTrend ==
    \E stored \in TrendCollections, zone \in Offsets :
        \E t \in ClockReadings(zone) : Constructed(stored, zone, t)

NextTrend ==
    \/ AddEntry
    \/ ImportTrendFile

SpecTrend == InitTrend /\ [][NextTrend]_vars

---------------------------------------------------------------------------
(* The mood statistics: a stored collection of rated and unrated entries,  *)
(* and the user picking a mood, adding and importing, all within the last  *)
(* clock reading                                                           *)

\* the ratings the form offers
MoodRatings == 1..5

\* the moods of a stored entry: not set, or one of three ratings
StoredMoods == {0, 1, 3, 5}

EntriesOfMoods(moods) ==
    [i \in 1..Len(moods) |->
        Entry(i, <<"a">>, <<"b">>, LongDateOfDay(Day0), moods[i])]

MoodCollections ==
    { EntriesOfMoods(moods) : moods \in SeqsUpTo(StoredMoods, MaxMoodEntries) }

\* the files imported here hold one entry at most, its mood not set, a
\* rating, or the number 6 that no rating is
MoodFiles == { EntriesOfMoods(moods) : moods \in SeqsUpTo({0, 3, 6}, 1) }

\* selectMood(value): a click on a mood button picks it, a second click
\* drops it
SelectMood ==
    \E value \in MoodRatings :
        /\ selectedMood' = IF selectedMood = value THEN 0 ELSE value
        /\ UNCHANGED <<entries, tz, background, now, searchInput, dateFromInput,
                       dateToInput, currentSearchTerm, filteredEntries,
                       searchResultsCount, statViews, editingId,
                       selectedImages, selectedAttachments, pendingReads,
                       listView, storedEntries>>

ImportMoodFile ==
    \E t \in StatClock, imported \in MoodFiles : Imported(t, imported)

InitMood ==
    \E stored \in MoodCollections, zone \in Offsets :
        Constructed(stored, zone, Max(ClockReadings(zone)))

NextMood ==
    \/ SelectMood
    \/ AddEntry
    \/ ImportMoodFile

SpecMood == InitMood /\ [][NextMood]_vars

---------------------------------------------------------------------------
(* Creating, editing and deleting: a stored collection with unique ids,    *)
(* and the user working the form and the buttons of the entries shown      *)

\* the index of the first entry with the id, 0 for none
FindIndex(es, id) ==
    IF \E i \in 1..Len(es) : es[i].id = id
    THEN Min({ i \in 1..Len(es) : es[i].id = id })
    ELSE 0

\* editEntry(id), from the edit button of an entry shown: the form takes
\* the entry's mood and goes to edit mode
EditEntry ==
    \E k \in 1..Len(diaryList) :
        LET id == diaryList[k].id
            entryIndex == FindIndex(entries, id)
        IN  /\ entryIndex # 0
            /\ selectedMood' = entries[entryIndex].mood
            /\ selectedImages' = entries[entryIndex].images
            /\ selectedAttachments' = entries[entryIndex].attachments
            /\ editingId' = <<id>>
            /\ UNCHANGED pendingReads
            /\ UNCHANGED <<entries, tz, background, now, searchInput, dateFromInput,
                           dateToInput, currentSearchTerm, filteredEntries,
                           searchResultsCount, statViews, listView,
                           storedEntries>>

\* cancelEdit: back to create mode with a cleared form
cancelEdit ==
    /\ editingId' = <<>>
    /\ clearForm

\* the cancel button, which edit mode shows
CancelEdit ==
    /\ editingId # <<>>
    /\ cancelEdit
    /\ UNCHANGED <<entries, tz, background, now, searchInput, dateFromInput,
                   dateToInput, currentSearchTerm, filteredEntries,
                   searchResultsCount, statViews, listView, storedEntries>>

\* an update that takes the entry out and puts the new one in front
UpdatedAtFront(es, entryIndex, title, content, mood, images, attachments) ==
    <<[es[entryIndex] EXCEPT !.title = title, !.content = content,
                             !.mood = mood, !.images = images,
                             !.attachments = attachments]>>
      \o [i \in 1..(Len(es) - 1) |->
             IF i < entryIndex THEN es[i] ELSE es[i + 1]]

\* this.entries[entryIndex] = { ...this.entries[entryIndex], title,
\* content, mood, images, attachments }
UpdatedEntries(es, entryIndex, title, content, mood, images, attachments) ==
    [es EXCEPT ![entryIndex] =
        [@ EXCEPT !.title = title, !.content = content, !.mood = mood,
                  !.images = images, !.attachments = attachments]]

\* the form's submit listener in edit mode: updateEntry; with a blank
\* title or content it alerts and returns, and with no entry of the id
\* it does nothing
UpdateEntry ==
    \E t \in StatClock, titleValue \in FormTexts, contentValue \in FormTexts :
        LET title      == Trim(titleValue)
            content    == Trim(contentValue)
            entryIndex == FindIndex(entries, editingId[1])
        IN  /\ editingId # <<>>
            /\ IF Rejected(title, content) \/ entryIndex = 0
               THEN UNCHANGED vars
               ELSE /\ now' = t
                    /\ UNCHANGED <<tz, background, searchInput, dateFromInput,
                                   dateToInput>>
                    /\ entries' = UpdatedEntries(entries, entryIndex, title,
                                                 content, selectedMood,
                                                 selectedImages,
                                                 selectedAttachments)
                    /\ saveEntries
                    /\ updateMoodFeatures(t)
                    /\ applyFilters(t, searchInput, dateFromInput,
                                    dateToInput)
                    /\ IF FiltersThrew THEN UNCHANGED formState
                                       ELSE cancelEdit

\* the stored collections: entries of Day0 with ids 1, 2, ..., not rated
\* or rated 3
CrudCollections ==
    { EntriesOfMoods(moods) : moods \in SeqsUpTo({0, 3}, MaxStoredEntries) }

InitCrud ==
    \E stored \in CrudCollections, zone \in Offsets :
        Constructed(stored, zone, Min(ClockReadings(zone)))

NextCrud ==
    \/ AddEntry
    \/ EditEntry
    \/ UpdateEntry
    \/ CancelEdit
    \/ DeleteEntry

SpecCrud == InitCrud /\ [][NextCrud]_vars

---------------------------------------------------------------------------
(* Properties of the statistics.  They speak of calendar days as the user  *)
(* sees them: the day a long-form date names, the local day a timestamp    *)
(* falls on, and the local day of the clock reading.                       *)

Parseable(dateString) == dateString.form \in {"long", "iso"}

PostingDay(dateString) ==
    IF dateString.form = "long"
    THEN DaysFromCivil(dateString.y, dateString.m, dateString.d)
    ELSE LocalDay(dateString.t, tz)

\* the distinct days on which an entry with a parseable date exists
PostingDays ==
    { PostingDay(entries[i].date) :
        i \in { j \in 1..Len(entries) : Parseable(entries[j].date) } }

Today == LocalDay(now, tz)

\* the length of the run of consecutive days of S that ends at day d
RunEndingAt(S, d) ==
    Max({ k \in 0..Cardinality(S) : \A j \in 0..(k - 1) : (d - j) \in S })

LongestRun(S) ==
    IF S = {} THEN 0 ELSE Max({ RunEndingAt(S, d) : d \in S })

AllLongForm == \A i \in 1..Len(entries) : entries[i].date.form = "long"

\* every date is in one of the two formats, and every timestamp is not
\* after the clock reading and falls on the same day in local time and in
\* UTC
AllParseableSameDay ==
    \A i \in 1..Len(entries) :
        /\ Parseable(entries[i].date)
        /\ entries[i].date.form = "iso" =>
               /\ entries[i].date.t <= now
               /\ LocalDay(entries[i].date.t, tz)
                     = ToISODay(entries[i].date.t)

\* C6: currentStreak is 0 unless the latest posting day is today or
\* yesterday, and is then the length of the run of consecutive days that
\* ends at the latest posting day, at every time of day and in every time
\* zone (stated for collections in the long form).
C6_CurrentStreakAliveTodayOrYesterday ==
    AllLongForm =>
        continuousStats.currentStreak =
            IF PostingDays # {} /\ Max(PostingDays) \in {Today, Today - 1}
            THEN RunEndingAt(PostingDays, Max(PostingDays))
            ELSE 0

\* C7: when the posting days are the n >= 1 consecutive days that end
\* today, currentStreak, maxStreak and totalDaysPosted are all n (stated
\* for collections whose dates are all parseable, the timestamps on the
\* same day in local time and in UTC and not after the clock reading).
C7_ConsecutiveDaysEndingToday ==
    AllParseableSameDay =>
        \A n \in 1..Len(entries) :
            PostingDays = (Today - n + 1)..Today =>
                /\ continuousStats.currentStreak = n
                /\ continuousStats.maxStreak = n
                /\ continuousStats.totalDaysPosted = n

\* C8: maxStreak is the length of the longest run of consecutive posting
\* days, entries of the same day counting once (stated for the same
\* collections as C7).
C8_MaxStreakIsLongestRun ==
    AllParseableSameDay =>
        continuousStats.maxStreak = LongestRun(PostingDays)

\* C9: totalDaysPosted is the number of distinct posting days and
\* lastPostDate the latest of them; with no posting day all counts are 0
\* and lastPostDate is null (stated for collections in the long form).
C9_TotalDaysAndLastPostDay ==
    AllLongForm =>
        /\ continuousStats.totalDaysPosted = Cardinality(PostingDays)
        /\ continuousStats.lastPostDate =
               IF PostingDays = {} THEN <<>> ELSE <<Max(PostingDays)>>
        /\ PostingDays = {} =>
               /\ continuousStats.currentStreak = 0
               /\ continuousStats.maxStreak = 0

\* the trailing window of the frequency statistics: 30 days and today
Window == (Today - WindowDays)..Today

PostsOn(d) ==
    Cardinality({ i \in 1..Len(entries) :
                    /\ Parseable(entries[i].date)
                    /\ PostingDay(entries[i].date) = d })

\* C10: every entry dated inside the window is counted in the bucket keyed
\* by its own day and in no other, an entry dated outside changes no
\* bucket, and so the buckets sum to the number of entries dated inside
\* the window (stated for collections in the long form).
C10_DailyBucketsCountWindowEntries ==
    AllLongForm =>
        LET daily == frequencyStats.daily IN
        /\ \A i \in 1..Len(entries) :
               PostingDay(entries[i].date) \in Window =>
                   PostingDay(entries[i].date) \in DOMAIN daily
        /\ \A k \in DOMAIN daily :
               daily[k] = IF k \in Window THEN PostsOn(k) ELSE 0
        /\ SumOver(daily, DOMAIN daily)
              = Cardinality({ i \in 1..Len(entries) :
                                PostingDay(entries[i].date) \in Window })

\* C11: totalPosts is the number of all entries of the collection, dated
\* inside the window or outside, parseable or not; averagePerDay is
\* totalPosts divided by the number of daily buckets, which is 31, and is
\* the number 0, not NaN, for the empty collection.
C11_TotalPostsCountsAllEntries ==
    LET average == frequencyStats.averagePerDay IN
    /\ frequencyStats.totalPosts = Len(entries)
    /\ Cardinality(DOMAIN frequencyStats.daily) = WindowDays + 1
    /\ average.den # 0
    /\ average.num * (WindowDays + 1)
          = frequencyStats.totalPosts * average.den
    /\ Len(entries) = 0 => average.num = 0

\* a collection holding a date in neither format and a long-form date
\* outside the window, none of them counted in a bucket
C11_Witness ==
    /\ \E i \in 1..Len(entries) : entries[i].date.form = "junk"
    /\ \E i \in 1..Len(entries) :
           /\ entries[i].date.form = "long"
           /\ PostingDay(entries[i].date) \notin Window
    /\ SumOver(frequencyStats.daily, DOMAIN frequencyStats.daily) = 0
    /\ frequencyStats.totalPosts = 2

\* C12: the series holds exactly one element for each entry whose date is
\* parseable and none for an entry whose date is in neither format.
C12_UnparseableNeverInSeries ==
    /\ Len(characterTrends.trends)
          = Cardinality({ i \in 1..Len(entries) : Parseable(entries[i].date) })
    /\ \A k \in 1..Len(characterTrends.trends) :
           ~Unparseable(characterTrends.trends[k].date)

\* the series, its length, the number of its recent elements, and the sums
\* of charCount over all of it and over its recent elements
Series == characterTrends.trends
RecentLength == IF Len(Series) < RecentCount THEN Len(Series) ELSE RecentCount
SeriesSum == SumOver([k \in 1..Len(Series) |-> Series[k].count], 1..Len(Series))
RecentSum ==
    SumOver([k \in 1..Len(Series) |-> Series[k].count],
            (Len(Series) - RecentLength + 1)..Len(Series))

\* the element of the series an entry stands for
ElementOf(entry) ==
    [date |-> entry.date, count |-> Len(entry.title) + Len(entry.content),
     title |-> entry.title]

\* the series holds the element of every entry with a parseable date, as
\* often as the collection does, with the parseable dates in ascending
\* order of their calendar day
SeriesAscending ==
    /\ \A i \in 1..Len(entries) :
           Parseable(entries[i].date) =>
               Cardinality({ k \in 1..Len(Series) :
                               Series[k] = ElementOf(entries[i]) })
                 >= Cardinality({ j \in 1..Len(entries) :
                                    ElementOf(entries[j])
                                      = ElementOf(entries[i]) })
    /\ \A i, j \in 1..Len(Series) :
           (i < j /\ Parseable(Series[i].date) /\ Parseable(Series[j].date))
              => PostingDay(Series[i].date) <= PostingDay(Series[j].date)

\* max and min are the largest and the smallest charCount of the series,
\* and all four numbers are 0 for the empty series
SeriesExtremes ==
    /\ Len(Series) > 0 =>
           /\ \E k \in 1..Len(Series) :
                  characterTrends.maxCharCount = Series[k].count
           /\ \E k \in 1..Len(Series) :
                  characterTrends.minCharCount = Series[k].count
           /\ \A k \in 1..Len(Series) :
                  /\ Series[k].count <= characterTrends.maxCharCount
                  /\ Series[k].count >= characterTrends.minCharCount
    /\ Len(Series) = 0 =>
           /\ characterTrends.averageCharCount = 0
           /\ characterTrends.maxCharCount = 0
           /\ characterTrends.minCharCount = 0
           /\ characterTrends.recentAverage = 0

\* r is the fraction sum / n rounded to the nearest integer, halves up
IsRounded(r, sum, n) ==
    /\ 2 * n * r <= 2 * sum + n
    /\ 2 * sum + n < 2 * n * (r + 1)

Rated == { i \in 1..Len(entries) : entries[i].mood # 0 }
RatingSum == SumOver([i \in Rated |-> entries[i].mood], Rated)

\* C14: only entries with a mood set are counted, each under its rating;
\* average is the sum of the ratings of the rated entries divided by
\* their number, and is the number 0, not NaN, when no entry is rated.
C14_MoodAverageOverRated ==
    /\ moodStats.total = Cardinality(Rated)
    /\ DOMAIN moodStats.counts = { entries[i].mood : i \in Rated }
    /\ \A m \in DOMAIN moodStats.counts :
           moodStats.counts[m]
             = Cardinality({ i \in Rated : entries[i].mood = m })
    /\ moodStats.average.den # 0
    /\ moodStats.average.num * moodStats.total
          = RatingSum * moodStats.average.den
    /\ moodStats.total = 0 => moodStats.average.num = 0

\* a collection with an unrated entry and two entries of different
\* ratings, one of them rated through the form
C14_Witness ==
    /\ \E i \in 1..Len(entries) : entries[i].mood = 0
    /\ \E i, j \in Rated :
           /\ entries[i].mood # entries[j].mood
           /\ entries[i].id > MaxMoodEntries
    /\ moodStats.total = 2

\* C15: with every mood not set or one of the ratings 1..5, the average
\* lies in [1, 5] whenever an entry is rated.
C15_MoodAverageWithinRatings ==
    (/\ \A i \in 1..Len(entries) : entries[i].mood \in {0} \cup MoodRatings
     /\ moodStats.total > 0)
        => /\ moodStats.average.den > 0
           /\ 1 * moodStats.average.den <= moodStats.average.num
           /\ moodStats.average.num <= 5 * moodStats.average.den

\* rated and unrated entries together, the average strictly inside the
\* interval and not a whole number
C15_Witness ==
    /\ \A i \in 1..Len(entries) : entries[i].mood \in {0} \cup MoodRatings
    /\ \E i \in 1..Len(entries) : entries[i].mood = 0
    /\ moodStats.total > 1
    /\ moodStats.average.num % moodStats.average.den # 0

\* the keyword occurs in the text, letters compared without regard to
\* case
SameLetter(a, b) == LowerChar(a) = LowerChar(b)
OccursIgnoringCase(keyword, text) ==
    \E start \in 0..(Len(text) - Len(keyword)) :
        \A k \in 1..Len(keyword) : SameLetter(text[start + k], keyword[k])

Blank(text) == \A k \in 1..Len(text) : text[k] = " "

\* an entry passes the keyword test for keyword
PassesKeyword(entry, keyword) ==
    \/ Blank(keyword)
    \/ OccursIgnoringCase(keyword, entry.title)
    \/ OccursIgnoringCase(keyword, entry.content)

\* C16 as amended: the keyword is the text of the search box with the
\* white space at its ends removed; an entry passes the keyword test iff
\* that keyword occurs, ignoring case, in its title or in its content, and
\* an empty or blank search box passes every entry.  An entry the filter
\* keeps passes the test, and with no date bound the filter keeps exactly
\* the entries that pass.
C16_TrimmedKeywordSubstring ==
    \A i \in 1..Len(entries) :
        /\ entries[i] \in Range(filteredEntries)
              => PassesKeyword(entries[i], Trim(searchInput))
        /\ (dateFromInput = <<>> /\ dateToInput = <<>>)
              => (entries[i] \in Range(filteredEntries)
                    <=> PassesKeyword(entries[i], Trim(searchInput)))

\* a search box holding a keyword followed by a space, with no date
\* bound: an entry kept for its content alone, in other case than the
\* keyword's, and an entry rejected
C16_Witness ==
    /\ searchInput # Trim(searchInput)
    /\ ~Blank(searchInput)
    /\ dateFromInput = <<>> /\ dateToInput = <<>>
    /\ \E i \in 1..Len(entries) :
           /\ entries[i] \in Range(filteredEntries)
           /\ ~OccursIgnoringCase(Trim(searchInput), entries[i].title)
           /\ ~Includes(entries[i].content, Trim(searchInput))
    /\ \E i \in 1..Len(entries) : entries[i] \notin Range(filteredEntries)

\* C16 as stated: the keyword is the text of the search box as typed.
C16_KeywordAsTyped ==
    \A i \in 1..Len(entries) :
        /\ entries[i] \in Range(filteredEntries)
              => PassesKeyword(entries[i], searchInput)
        /\ (dateFromInput = <<>> /\ dateToInput = <<>>)
              => (entries[i] \in Range(filteredEntries)
                    <=> PassesKeyword(entries[i], searchInput))

\* the date bounds a user can set around the days of the model, and their
\* order by strictness
BoundDays == { <<>> } \cup { <<Day0 + k>> : k \in (0 - 2)..2 }
FromNoLater(a, b) == a = <<>> \/ (b # <<>> /\ a[1] <= b[1])
ToNoEarlier(a, b) == a = <<>> \/ (b # <<>> /\ a[1] >= b[1])

\* what the filter gives for the collection, the keyword and the clock
\* reading of the last run under other date bounds
FilteredUnder(dateFrom, dateTo) ==
    ArrayFilter(entries, currentSearchTerm, dateFrom, dateTo, now, tz)

\* C17: with the collection, the keyword and the clock reading fixed, a
\* from-date moved later, a to-date moved earlier, or a bound supplied
\* where none was set gives a result that is a subset of the result
\* before, so matchCount does not grow.
C17_StricterBoundsShrinkResult ==
    /\ filteredEntries = FilteredUnder(dateFromInput, dateToInput)
    /\ \A from2, to2 \in BoundDays :
           (FromNoLater(dateFromInput, from2) /\ ToNoEarlier(dateToInput, to2))
              => /\ Range(FilteredUnder(from2, to2)) \subseteq Range(filteredEntries)
                 /\ Len(FilteredUnder(from2, to2)) <= Len(filteredEntries)

\* a run with both bounds set that kept one entry of three, where each
\* bound alone keeps more
C17_Witness ==
    /\ dateFromInput # <<>> /\ dateToInput # <<>>
    /\ Len(entries) = 3
    /\ Len(filteredEntries) = 1
    /\ Len(FilteredUnder(dateFromInput, <<>>)) > 1
    /\ Len(FilteredUnder(<<>>, dateToInput)) > 1

\* the pieces of text from position pos on, split at each occurrence of
\* keyword (not empty) with case ignored; run is the piece gathered so far
RECURSIVE PiecesFrom(_, _, _, _)
PiecesFrom(text, keyword, pos, run) ==
    LET gathered == IF run = <<>> THEN <<>>
                    ELSE <<[text |-> run, isMatch |-> FALSE]>>
    IN  IF pos > Len(text) THEN gathered
        ELSE IF /\ pos + Len(keyword) - 1 <= Len(text)
                /\ \A k \in 1..Len(keyword) :
                       SameLetter(text[pos + k - 1], keyword[k])
             THEN gathered
                    \o <<[text |-> SubSeq(text, pos, pos + Len(keyword) - 1),
                          isMatch |-> TRUE]>>
                    \o PiecesFrom(text, keyword, pos + Len(keyword), <<>>)
             ELSE PiecesFrom(text, keyword, pos + 1, Append(run, text[pos]))

\* segment(text, keyword) as the claim describes it
Segments(text, keyword) ==
    IF keyword = <<>> THEN <<[text |-> text, isMatch |-> FALSE]>>
    ELSE PiecesFrom(text, keyword, 1, <<>>)

\* a list of segments without its empty ones
WithoutEmpty(segments) ==
    SelectSeq(segments, LAMBDA segment : segment.text # <<>>)

\* the entry a child of the list shows
EntryShown(item) == CHOOSE e \in Range(entries) : e.id = item.id

\* C18: the title and the content of every entry shown are cut into the
\* pieces between and at the occurrences of the keyword, case ignored,
\* exactly the occurrences marked and every piece in its own casing; an
\* empty keyword gives the whole text as one unmarked piece.  (Empty
\* pieces are left out of the comparison.)
C18_SegmentsSplitAtOccurrences ==
    \A k \in 1..Len(diaryList) :
        /\ WithoutEmpty(diaryList[k].title)
              = WithoutEmpty(Segments(EntryShown(diaryList[k]).title,
                                      currentSearchTerm))
        /\ WithoutEmpty(diaryList[k].content)
              = WithoutEmpty(Segments(EntryShown(diaryList[k]).content,
                                      currentSearchTerm))

\* C19: no keyword makes the search fail: after every run of the filter
\* no exception was raised and every entry the filter kept is shown.
C19_SearchNeverThrows ==
    /\ ~renderError
    /\ Len(diaryList) = Len(filteredEntries)

\* C20: no two entries of the collection have the same id.
C20_IdsUnique ==
    \A i, j \in 1..Len(entries) : i # j => entries[i].id # entries[j].id

---------------------------------------------------------------------------
(* The arrays behind the analytics.  this.entries names one array object;  *)
(* filter, map and the spread make a new array, and sort orders the array  *)
(* it is called on in place.  A heap gives every array its elements.       *)

ThisEntries == "this.entries"

\* the heap with this.entries alone
HeapOf(es) == [a \in {ThisEntries} |-> es]

\* a call that hands back the array it was called on
ReceiverArray(receiver, made) == receiver

\* the array that filter, map or the spread returns: the new array made
ResultArray(receiver, made) == made

\* the heap after receiver.filter(...), receiver.map(...) or [...receiver]
\* whose result holds elements
HeapAfterCopy(heap, receiver, made, elements) ==
    LET result == ResultArray(receiver, made)
    IN  [a \in DOMAIN heap \cup {result} |->
            IF a = result THEN elements ELSE heap[a]]

\* the heap after array.sort(...) leaves array in the order sorted
HeapAfterSort(heap, array, sorted) == [heap EXCEPT ![array] = sorted]

\* applyFilters: this.filteredEntries = this.entries.filter(...)
FilterHeap(heap, searchTerm, dateFrom, dateTo, clock, zone) ==
    HeapAfterCopy(heap, ThisEntries, "filteredEntries",
                  ArrayFilter(heap[ThisEntries], searchTerm, dateFrom,
                              dateTo, clock, zone))

\* getCharacterTrends: this.entries.filter(...).sort(...), for each order
\* the sort may leave
CharacterTrendsHeaps(heap, clock, zone) ==
    LET afterFilter == HeapAfterCopy(heap, ThisEntries, "validEntries",
                                     TrendKept(heap[ThisEntries], clock,
                                               zone))
        validEntries == ResultArray(ThisEntries, "validEntries")
    IN  { [heap    |-> HeapAfterSort(afterFilter, validEntries, sorted),
           result  |-> TrendStats([i \in 1..Len(sorted) |->
                                      TrendOf(sorted[i])])] :
            sorted \in SortOrders(afterFilter[validEntries], clock, zone) }

\* getContinuousDaysStats: this.entries.map(...).filter(...), then
\* [...new Set(validDates)].sort()
ContinuousDaysHeap(heap, clock, zone) ==
    LET uniqueDates == SortedUnique(ValidDates(heap[ThisEntries], clock,
                                               zone))
        afterMap == HeapAfterCopy(heap, ThisEntries, "validDates",
                                  uniqueDates)
    IN  HeapAfterSort(afterMap, ResultArray(ThisEntries, "validDates"),
                      uniqueDates)

\* the entries the frame is checked on: dated by the clock, by the days
\* around Day0 and by nothing, rated and not
FramePool ==
    { Entry(1, <<"a">>, <<"b">>, KanjiDate, 0),
      Entry(2, <<"c">>, <<"b">>, LongDateOfDay(Day0 + 1), 0),
      Entry(3, <<"a">>, <<"c">>, LongDateOfDay(Day0 - 1), 3),
      Entry(4, <<"c">>, <<"c">>, JunkDate, 5) }

FrameCollections ==
    { es \in SeqsUpTo(FramePool, MaxStoredEntries) :
        \A i, j \in 1..Len(es) : i # j => es[i].id # es[j].id }

\* a call of applyFilters from the search box
CallApplyFilters ==
    \E t \in StatClock, value \in { <<>>, <<"a">> } :
        /\ now' = t
        /\ searchInput' = value
        /\ entries' = FilterHeap(HeapOf(entries), SearchTermOf(value),
                                 dateFromInput, dateToInput, t,
                                 tz)[ThisEntries]
        /\ applyFilters(t, value, dateFromInput, dateToInput)
        /\ UNCHANGED <<tz, background, dateFromInput, dateToInput,
                       statViews, formState, storedEntries>>

\* a call of getMoodStats: its forEach reads
CallGetMoodStats ==
    \E t \in StatClock :
        /\ now' = t
        /\ moodStats' = getMoodStats(entries)
        /\ UNCHANGED <<entries, tz, background, searchInput, dateFromInput,
                       dateToInput, currentSearchTerm, filteredEntries,
                       searchResultsCount, continuousStats, frequencyStats,
                       characterTrends, formState, listView, storedEntries>>

\* a call of getPostFrequencyStats: its loops read
CallGetPostFrequencyStats ==
    \E t \in StatClock :
        /\ now' = t
        /\ frequencyStats' = getPostFrequencyStats(entries, t, tz)
        /\ UNCHANGED <<entries, tz, background, searchInput, dateFromInput,
                       dateToInput, currentSearchTerm, filteredEntries,
                       searchResultsCount, continuousStats, characterTrends,
                       moodStats, formState, listView, storedEntries>>

\* a call of getCharacterTrends
CallGetCharacterTrends ==
    \E t \in StatClock :
        \E call \in CharacterTrendsHeaps(HeapOf(entries), t, tz) :
            /\ now' = t
            /\ characterTrends' = call.result
            /\ entries' = call.heap[ThisEntries]
            /\ UNCHANGED <<tz, background, searchInput, dateFromInput,
                           dateToInput, currentSearchTerm, filteredEntries,
                           searchResultsCount, continuousStats,
                           frequencyStats, moodStats, formState, listView,
                           storedEntries>>

\* a call of getContinuousDaysStats
CallGetContinuousDaysStats ==
    \E t \in StatClock :
        /\ now' = t
        /\ continuousStats' = getContinuousDaysStats(entries, t, tz)
        /\ entries' = IF Len(entries) = 0 THEN entries
                      ELSE ContinuousDaysHeap(HeapOf(entries), t,
                                              tz)[ThisEntries]
        /\ UNCHANGED <<tz, background, searchInput, dateFromInput,
                       dateToInput, currentSearchTerm, filteredEntries,
                       searchResultsCount, frequencyStats, characterTrends,
                       moodStats, formState, listView, storedEntries>>

InitFrame ==
    \E stored \in FrameCollections, zone \in Offsets :
        Constructed(stored, zone, Min(ClockReadings(zone)))

NextFrame ==
    \/ CallApplyFilters
    \/ CallGetMoodStats
    \/ CallGetPostFrequencyStats
    \/ CallGetCharacterTrends
    \/ CallGetContinuousDaysStats

SpecFrame == InitFrame /\ [][NextFrame]_vars

\* C21: applyFilters, getMoodStats, getPostFrequencyStats,
\* getCharacterTrends and getContinuousDaysStats leave the entry collection
\* as it was: the same elements in the same order with the same field
\* values (here: as loaded, no call saving anything); the sort inside
\* getCharacterTrends does not reorder it.
C21_AnalyticsLeaveEntries == entries = storedEntries

\* getCharacterTrends ran on a later day and its sort put the entry dated
\* by the clock behind the entry that follows it in the collection, and
\* the filter ran and dropped an entry
C21_Witness ==
    /\ Len(entries) = 2
    /\ ClockDated(entries[1].date)
    /\ entries[2].date = LongDateOfDay(Day0 + 1)
    /\ Len(characterTrends.trends) = 2
    /\ characterTrends.trends[1].date = entries[2].date
    /\ characterTrends.trends[2].date = entries[1].date
    /\ Len(filteredEntries) < Len(entries)
    /\ entries = storedEntries

---------------------------------------------------------------------------
(* Properties of the form                                                  *)

\* text that is empty once trimmed
BlankText(text) == Trim(text) = <<>>

\* C23: a submit whose title or content is empty after trimming is turned
\* down by addEntry and by updateEntry, so every entry of the collection,
\* and of its stored copy, has a title and a content that are not empty
\* and are kept trimmed.
C23_FormRejectsBlankFields ==
    \A es \in {entries, storedEntries} :
        \A i \in 1..Len(es) :
            /\ ~BlankText(es[i].title)
            /\ ~BlankText(es[i].content)
            /\ es[i].title = Trim(es[i].title)
            /\ es[i].content = Trim(es[i].content)

\* the form was submitted in create mode and in edit mode: an entry has
\* the clock reading of addEntry for its id, and a stored entry has the
\* content typed into the form, trimmed
C23_Witness ==
    /\ \E i \in 1..Len(entries) : entries[i].id \in ClockReadings(tz)
    /\ \E i \in 1..Len(entries) :
           /\ entries[i].id \notin ClockReadings(tz)
           /\ entries[i].content = <<"a">>

\* a submit in edit mode that went through: the collection changed and
\* the form is back in create mode
UpdateWentThrough ==
    /\ editingId # <<>>
    /\ editingId' = <<>>
    /\ entries' # entries

\* C24: updateEntry leaves the number of entries, every other entry, and
\* the id, the date and the position of the entry edited as they were.
C24_UpdateKeepsIdDatePlace ==
    [][UpdateWentThrough =>
          LET entryIndex == FindIndex(entries, editingId[1])
          IN  /\ entryIndex # 0
              /\ Len(entries') = Len(entries)
              /\ \A i \in 1..Len(entries) :
                     /\ entries'[i].id = entries[i].id
                     /\ entries'[i].date = entries[i].date
                     /\ i # entryIndex => entries'[i] = entries[i]
              /\ entries'[entryIndex] # entries[entryIndex]]_vars

\* the second entry of two stored ones was updated: it has its id and
\* its place, and the content typed into the form
C24_Witness ==
    /\ Len(entries) = 2
    /\ editingId = <<>>
    /\ entries[1].id = 1
    /\ entries[1].content = <<"b">>
    /\ entries[2].id = 2
    /\ entries[2].content = <<"a">>

\* C25: in edit mode editingId is the id of an entry of the collection.
C25_EditingIdInCollection ==
    editingId # <<>> => \E i \in 1..Len(entries) : entries[i].id = editingId[1]

---------------------------------------------------------------------------
(* Backup, restore and import: a stored collection, a backup that may be   *)
(* there, and the user working the form, the buttons of the entries and    *)
(* the data buttons, all within the last clock reading                     *)

\* what JSON.parse makes of a text: it throws, or it gives a value whose
\* entries property is an array or is not
Unparsable == [parses |-> FALSE, isArray |-> FALSE, entries |-> <<>>]
ParsedData(isArray, es) == [parses |-> TRUE, isArray |-> isArray, entries |-> es]

\* an element of an array that has a title and a content but no date and
\* no mood (renderMoodChart passes an unrated element by)
Undated == Entry(9, <<"a">>, <<"b">>, MissingDate, 0)

\* the texts of a backup or of a picked file: not JSON, JSON without an
\* entries array, and JSON with an array that is empty, holds an entry, or
\* holds an element that is no entry
DataTexts ==
    { Unparsable,
      ParsedData(FALSE, <<>>),
      ParsedData(TRUE, <<>>),
      ParsedData(TRUE, <<Entry(5, <<"c">>, <<"c">>, LongDateOfDay(Day0), 0)>>),
      ParsedData(TRUE, <<Undated>>) }

\* backupData: the collection goes under 'diary-backup'
BackupData ==
    /\ backup' = ParsedData(TRUE, entries)
    /\ UNCHANGED <<entries, tz, now, searchInput, dateFromInput,
                   dateToInput, currentSearchTerm, filteredEntries,
                   searchResultsCount, statViews, formState, listView,
                   storedEntries, weekState, templateState, workerState>>

\* what restoreData and the reader's onload do with the text at clock
\* reading t: for text that does not parse (the exception is caught) or
\* has no entries array, an alert; else the collection is replaced, saved
\* and shown
Replaced(t, data) ==
    IF ~data.parses \/ ~data.isArray
    THEN UNCHANGED vars
    ELSE Imported(t, data.entries)

\* restoreData: with no backup an alert; else the prompt, confirmed or not
RestoreData ==
    \E t \in StatClock, confirmed \in BOOLEAN :
        IF backup = <<>> \/ ~confirmed
        THEN UNCHANGED vars
        ELSE Replaced(t, backup)

\* importFromFile with a file picked: the reader's onload, and the prompt
\* it shows for an entries array, confirmed or not
ImportData ==
    \E t \in StatClock, data \in DataTexts, confirmed \in BOOLEAN :
        IF data.parses /\ data.isArray /\ ~confirmed
        THEN UNCHANGED vars
        ELSE Replaced(t, data)

InitData ==
    \E stored \in CrudCollections, zone \in Offsets,
       saved \in {<<>>} \cup DataTexts :
        /\ Page(stored, zone, Max(ClockReadings(zone)))
        /\ backup = saved
        /\ NoWeek
        /\ LoadedTemplates
        /\ Installed

NextData ==
    \/ AddEntry
    \/ EditEntry
    \/ UpdateEntry
    \/ CancelEdit
    \/ DeleteEntry
    \/ BackupData
    \/ RestoreData
    \/ ImportData

SpecData == InitData /\ [][NextData]_vars

\* C22: after every mutation of the collection the views are those of the
\* new collection: filteredEntries is the filter of entries under the
\* keyword and the date inputs, it holds no entry that is not in entries,
\* and the four statistics are those of entries.
C22_ViewsNeverStale ==
    /\ filteredEntries = ArrayFilter(entries, currentSearchTerm,
                                     dateFromInput, dateToInput, now, tz)
    /\ Range(filteredEntries) \subseteq Range(entries)
    /\ continuousStats = getContinuousDaysStats(entries, now, tz)
    /\ frequencyStats = getPostFrequencyStats(entries, now, tz)
    /\ characterTrends \in getCharacterTrends(entries, now, tz)
    /\ moodStats = getMoodStats(entries)

\* C26: the stored copy is the collection in memory, and data that is
\* malformed gets into neither: both hold entries only.
C26_StoreTracksMemory ==
    /\ storedEntries = entries
    /\ \A i \in 1..Len(entries) : entries[i].date # MissingDate
    /\ \A i \in 1..Len(storedEntries) : storedEntries[i].date # MissingDate

---------------------------------------------------------------------------
(* The file inputs of the form: handleImageUpload and handleFileUpload     *)
(* read the picked files one after the other, each read awaited, while     *)
(* the user goes on working the form. A size is in megabytes.              *)

ImageLimit == 5
FileLimit == 10

MaxPicked == 2
MaxSelected == 2
MaxPendingReads == 1

\* a picked file
File(name, image, size) == [name |-> name, image |-> image, size |-> size]

FilePool ==
    { File("p", TRUE, 1), File("t", FALSE, 6), File("h", TRUE, 11) }

\* what input.files can hold
PickedFiles == SeqsUpTo(FilePool, MaxPicked)

\* the files the loop of handleImageUpload reads: the others get an alert
ImageReads(files) ==
    SelectSeq(files, LAMBDA f : f.image /\ ~(f.size > ImageLimit))

\* the files the loop of handleFileUpload reads
FileReads(files) == SelectSeq(files, LAMBDA f : ~(f.size > FileLimit))

\* what a read that has loaded pushes: the data of the file, here its
\* name, with the record of whether the form was cleared between the
\* pick and the push
FileData(file, cleared) == [name |-> file.name, late |-> cleared]

\* the files in the form and on their way to it, and the most an entry
\* holds, which editEntry would put in the form
FilesAtHand ==
    Len(selectedImages) + Len(selectedAttachments)
      + SumOver([u \in pendingReads |-> Len(u.files)], pendingReads)
      + Max({0} \cup { Len(entries[i].images) + Len(entries[i].attachments) :
                         i \in 1..Len(entries) })

\* the run of a handler up to its first await: nothing is pending when no
\* file passes the tests
Started(kind, reads) ==
    /\ pendingReads' =
           IF reads = <<>> THEN pendingReads
           ELSE pendingReads \cup { Upload(kind, reads, FALSE) }
    /\ UNCHANGED <<entries, tz, background, now, searchInput, dateFromInput,
                   dateToInput, currentSearchTerm, filteredEntries,
                   searchResultsCount, statViews, listView, storedEntries,
                   selectedMood, editingId, selectedImages,
                   selectedAttachments>>

\* the 'change' listener of the image input
HandleImageUpload ==
    \E files \in PickedFiles :
        /\ Cardinality(pendingReads) < MaxPendingReads
        /\ FilesAtHand + Len(ImageReads(files)) <= MaxSelected
        /\ Started("image", ImageReads(files))

\* the 'change' listener of the file input
HandleFileUpload ==
    \E files \in PickedFiles :
        /\ Cardinality(pendingReads) < MaxPendingReads
        /\ FilesAtHand + Len(FileReads(files)) <= MaxSelected
        /\ Started("file", FileReads(files))

\* the handler resumed after await this.fileToBase64(file): the promise
\* resolved and the data is pushed onto the array the field holds now, or
\* it rejected and the catch alerts; the loop goes to the next file
ReadSettled ==
    \E u \in pendingReads, loaded \in BOOLEAN :
        LET data == FileData(Head(u.files), u.cleared)
            rest == Tail(u.files)
        IN  /\ pendingReads' =
                   (pendingReads \ {u})
                     \cup (IF rest = <<>> THEN {}
                           ELSE { Upload(u.kind, rest, u.cleared) })
            /\ selectedImages' =
                   IF loaded /\ u.kind = "image"
                   THEN Append(selectedImages, data) ELSE selectedImages
            /\ selectedAttachments' =
                   IF loaded /\ u.kind = "file"
                   THEN Append(selectedAttachments, data)
                   ELSE selectedAttachments
            /\ UNCHANGED <<entries, tz, background, now, searchInput,
                           dateFromInput, dateToInput, currentSearchTerm,
                           filteredEntries, searchResultsCount, statViews,
                           listView, storedEntries, selectedMood, editingId>>

\* splice(index, 1)
Spliced(s, index) == [k \in 1..(Len(s) - 1) |-> IF k < index THEN s[k] ELSE s[k + 1]]

\* removeImage(index), from the button of an image shown in the form
RemoveImage ==
    \E index \in 1..Len(selectedImages) :
        /\ selectedImages' = Spliced(selectedImages, index)
        /\ UNCHANGED <<entries, tz, background, now, searchInput,
                       dateFromInput, dateToInput, currentSearchTerm,
                       filteredEntries, searchResultsCount, statViews,
                       listView, storedEntries, selectedMood, editingId,
                       selectedAttachments, pendingReads>>

\* removeAttachment(index)
RemoveAttachment ==
    \E index \in 1..Len(selectedAttachments) :
        /\ selectedAttachments' = Spliced(selectedAttachments, index)
        /\ UNCHANGED <<entries, tz, background, now, searchInput,
                       dateFromInput, dateToInput, currentSearchTerm,
                       filteredEntries, searchResultsCount, statViews,
                       listView, storedEntries, selectedMood, editingId,
                       selectedImages, pendingReads>>

InitUpload ==
    \E stored \in { <<>>, <<Entry(1, <<"a">>, <<"b">>, LongDateOfDay(Day0), 0)>> } :
        Constructed(stored, 0, Max(ClockReadings(0)))

NextUpload ==
    \/ HandleImageUpload
    \/ HandleFileUpload
    \/ ReadSettled
    \/ RemoveImage
    \/ RemoveAttachment
    \/ AddEntry
    \/ EditEntry
    \/ UpdateEntry
    \/ CancelEdit

SpecUpload == InitUpload /\ [][NextUpload]_vars

\* the data in s of files picked before the form was cleared
Late(s) == { k \in 1..Len(s) : s[k].late }

\* C27: no file picked before addEntry, updateEntry or cancelEdit cleared
\* the form is in the form afterwards or in an entry saved afterwards: the
\* selected images and attachments, and those of every entry, come from
\* files picked since the form was last cleared.
C27_NoLateFileInForm ==
    /\ Late(selectedImages) = {}
    /\ Late(selectedAttachments) = {}
    /\ \A i \in 1..Len(entries) :
           /\ Late(entries[i].images) = {}
           /\ Late(entries[i].attachments) = {}

---------------------------------------------------------------------------
(* getWeekKey, which getPostFrequencyStats calls with new Date(date) for   *)
(* each day string of its window                                           *)

\* date.getFullYear(): the year of the instant in the browser's zone
GetFullYear(t, zone) == CivilFromDays(LocalDay(t, zone)).y

\* date.getDay(): 0 is Sunday; 1970-01-01 was a Thursday
GetDay(t, zone) == (LocalDay(t, zone) + 4) % 7

\* Math.ceil(n / 7) for n >= 0
CeilOfSevenths(n) == (n + 6) \div 7

\* weekNumber of getWeekKey: it adds the weekday of the date itself
WeekNumber(t, zone) ==
    LET oneJan == NewDateLocal(GetFullYear(t, zone), 0, 1, zone)
        numberOfDays == (t - oneJan) \div SecPerDay
    IN  CeilOfSevenths(GetDay(t, zone) + 1 + numberOfDays)

\* getWeekKey(date): the key `${year}-W${weekNumber}` as its two numbers
getWeekKey(t, zone) ==
    [year |-> GetFullYear(t, zone), week |-> WeekNumber(t, zone)]

\* the years whose days are gone through: 1 January falls on each of the
\* seven weekdays in one of them
WeekYears == 2015..2022

\* getWeekKey(new Date(date)) as called for the day string date
CallGetWeekKey(date) ==
    /\ weekDate' = <<date>>
    /\ weekKey' = getWeekKey(NewDateFromDayString(date), tz)
    /\ UNCHANGED <<entries, tz, now, searchInput, dateFromInput, dateToInput,
                   currentSearchTerm, filteredEntries, searchResultsCount,
                   statViews, formState, listView, storedEntries, backup,
                   templateState, workerState>>

\* the call for the day after the last one
NextDay ==
    /\ weekDate[1] < DaysFromCivil(Max(WeekYears), 12, 31)
    /\ CallGetWeekKey(weekDate[1] + 1)

InitWeek ==
    \E zone \in Offsets, year \in WeekYears :
        /\ Page(<<>>, zone, Max(ClockReadings(zone)))
        /\ backup = <<>>
        /\ weekDate = <<DaysFromCivil(year, 1, 1)>>
        /\ weekKey = getWeekKey(NewDateFromDayString(weekDate[1]), zone)
        /\ LoadedTemplates
        /\ Installed

NextWeek == NextDay

SpecWeek == InitWeek /\ [][NextWeek]_vars

\* C28: from one day to the next within a year of the key, the week
\* number does not go down and goes up by 1 at most.
C28_WeekNumberMonotone ==
    [][ weekKey'.year = weekKey.year
          => /\ weekKey'.week >= weekKey.week
             /\ weekKey'.week <= weekKey.week + 1 ]_vars

---------------------------------------------------------------------------
(* The templates: saveCurrentAsTemplate, and editTemplate and              *)
(* deleteTemplate of the template manager                                  *)

MaxTemplates == 2

\* what the user types for a name in the prompt or in the name field:
\* nothing, names that differ in a space only, and the name of a preset
TemplateNames ==
    { <<>>, <<"a">>, <<"a", " ">>, <<"b">>, presetTemplates[1].name }

\* the title and the content fields
TemplateTexts == { <<" ">>, <<"a">>, <<"b">> }

CustomTemplates(ts) == SelectSeq(ts, LAMBDA t : t.type = "custom")

\* saveTemplates: the custom templates go under 'diary-templates'
saveTemplates == storedTemplates' = CustomTemplates(templates')

\* Date.now().toString() + Math.random()...: an id no template has
NewTemplateId(ts) ==
    ToString(Min({ n \in 1..(Len(ts) + 1) :
                     \A i \in 1..Len(ts) : ts[i].id # ToString(n) }))

\* find: the index of the first template that passes, 0 for undefined
FindTemplate(ts, Passes(_)) ==
    IF \E i \in 1..Len(ts) : Passes(ts[i])
    THEN Min({ i \in 1..Len(ts) : Passes(ts[i]) })
    ELSE 0

\* a search of the name among the templates of the other type
ExistingPreset(ts, name) ==
    FindTemplate(ts, LAMBDA t : t.name = name /\ t.type = "preset")

\* this.templates.find(t => t.name === templateName && t.type === 'custom')
ExistingTemplate(ts, name) ==
    FindTemplate(ts, LAMBDA t : t.name = name /\ t.type = "custom")

LeavesDiary ==
    UNCHANGED <<entries, tz, now, searchInput, dateFromInput, dateToInput,
                currentSearchTerm, filteredEntries, searchResultsCount,
                statViews, formState, listView, storedEntries, backup,
                weekState, workerState>>

\* saveCurrentAsTemplate with the fields holding titleValue and
\* contentValue, the prompt answered templateName, and the overwrite
\* prompt, if it comes, confirmed or not
SaveCurrentAsTemplate ==
    \E titleValue, contentValue \in TemplateTexts,
       templateName \in TemplateNames, confirmed \in BOOLEAN :
        LET title == Trim(titleValue)
            content == Trim(contentValue)
            existing == ExistingTemplate(templates, templateName)
        IN  /\ existing = 0 =>
                   Len(CustomTemplates(templates)) < MaxTemplates
            /\ LeavesDiary
            /\ IF title = <<>> \/ content = <<>> \/ templateName = <<>>
                  \/ (existing # 0 /\ ~confirmed)
               THEN UNCHANGED templateState
               ELSE /\ templates' =
                           IF existing # 0
                           THEN [templates EXCEPT ![existing].title = title,
                                                  ![existing].content = content]
                           ELSE Append(templates,
                                       Template(NewTemplateId(templates),
                                                templateName, title, content,
                                                "custom"))
                    /\ saveTemplates

\* editTemplate(templateId) and the click on its save button, with the
\* three fields holding nameValue, titleValue and contentValue
EditTemplate ==
    \E k \in 1..Len(templates), nameValue \in TemplateNames,
       titleValue, contentValue \in TemplateTexts :
        LET templateId == templates[k].id
            template == FindTemplate(templates, LAMBDA t : t.id = templateId)
            newName == Trim(nameValue)
            newTitle == Trim(titleValue)
            newContent == Trim(contentValue)
            existing == FindTemplate(templates,
                            LAMBDA t : /\ t.name = newName
                                       /\ t.id # templateId
                                       /\ t.type = "custom")
        IN  /\ LeavesDiary
            /\ IF templates[template].type # "custom"
                  \/ newName = <<>> \/ newTitle = <<>> \/ newContent = <<>>
                  \/ existing # 0
               THEN UNCHANGED templateState
               ELSE /\ templates' =
                           [templates EXCEPT ![template].name = newName,
                                             ![template].title = newTitle,
                                             ![template].content = newContent]
                    /\ saveTemplates

\* deleteTemplate(templateId), confirmed or not at the prompt
DeleteTemplate ==
    \E k \in 1..Len(templates), confirmed \in BOOLEAN :
        LET templateId == templates[k].id
            template == FindTemplate(templates, LAMBDA t : t.id = templateId)
        IN  /\ LeavesDiary
            /\ IF templates[template].type # "custom" \/ ~confirmed
               THEN UNCHANGED templateState
               ELSE /\ templates' =
                           SelectSeq(templates, LAMBDA t : t.id # templateId)
                    /\ saveTemplates

InitTemplates ==
    \E zone \in Offsets : Constructed(<<>>, zone, Max(ClockReadings(zone)))

NextTemplates ==
    \/ SaveCurrentAsTemplate
    \/ EditTemplate
    \/ DeleteTemplate

SpecTemplates == InitTemplates /\ [][NextTemplates]_vars

\* C29: no two custom templates have the same name, and the presets are
\* in the list as they were loaded: the first templates of the list are
\* the presets, unchanged, and every other template is a custom one.
C29_CustomNamesUniquePresetsKept ==
    /\ \A i, j \in 1..Len(templates) :
           (/\ i # j
            /\ templates[i].type = "custom"
            /\ templates[j].type = "custom")
               => templates[i].name # templates[j].name
    /\ Len(templates) >= Len(presetTemplates)
    /\ SubSeq(templates, 1, Len(presetTemplates)) = presetTemplates
    /\ \A i \in (Len(presetTemplates) + 1)..Len(templates) :
           templates[i].type = "custom"
    /\ storedTemplates \in {<<>>, CustomTemplates(templates)}

\* two custom templates whose names differ in a trailing space only, the
\* later one saved under the name that the edit form would trim the
\* earlier one's to
C29_Witness ==
    \E i, j \in 1..Len(templates) :
        /\ templates[i].type = "custom"
        /\ templates[j].type = "custom"
        /\ templates[i].name = <<"a">>
        /\ templates[j].name = <<"a", " ">>
        /\ templates[i].title = <<"b">>
        /\ j < i

---------------------------------------------------------------------------
(* The service worker's reminders (src/unnamed/part_001): the 'message'    *)
(* listener and scheduleReminderNotification. The worker's clock is in     *)
(* minutes of local time from the midnight of day 0; a timer fires in the  *)
(* clock reading it is due in.                                             *)

MaxTimers == 2

MinutesPerDay == 24 * 60

\* the steps of the worker's clock
TickMinutes == 3 * 60

\* payload.time, 'HH:MM', as time.split(':').map(Number) gives it
ReminderTimes == { <<9, 0>>, <<21, 0>> }

\* reminderDate: today at hours:minutes, and the day after if that is
\* not after now
ReminderDate(time, t) ==
    LET today == (t \div MinutesPerDay) * MinutesPerDay + time[1] * 60 + time[2]
    IN  IF today <= t THEN today + MinutesPerDay ELSE today

\* a pending setTimeout of scheduleReminderNotification(time)
Timer(time, due) == [time |-> time, due |-> due]

\* scheduleReminderNotification(time) at clock reading t, with the timers
\* pending: setTimeout adds one
scheduleReminderNotification(time, t, pending) ==
    pending (+) SetToBag({ Timer(time, ReminderDate(time, t)) })

LeavesPage ==
    UNCHANGED <<entries, tz, now, searchInput, dateFromInput, dateToInput,
                currentSearchTerm, filteredEntries, searchResultsCount,
                statViews, formState, listView, storedEntries, backup,
                weekState, templateState>>

\* the 'message' listener for a SCHEDULE_REMINDER message
Message ==
    \E time \in ReminderTimes, flag \in BOOLEAN :
        /\ flag => BagCardinality(timers) < MaxTimers
        /\ enabled' = flag
        /\ timers' = IF flag
                     THEN scheduleReminderNotification(time, workerNow, timers)
                     ELSE timers
        /\ UNCHANGED <<workerNow, shown, shownDisabled>>
        /\ LeavesPage

\* the callback of a timer that is due: showNotification, then
\* scheduleReminderNotification(time) again
TimerFires ==
    \E timer \in BagToSet(timers) :
        /\ timer.due <= workerNow
        /\ shown' = [shown EXCEPT ![workerNow \div MinutesPerDay] = @ + 1]
        /\ shownDisabled' = (shownDisabled \/ ~enabled)
        /\ timers' = scheduleReminderNotification(
                         timer.time, workerNow,
                         timers (-) SetToBag({timer}))
        /\ UNCHANGED <<workerNow, enabled>>
        /\ LeavesPage

\* the clock goes on once the timers that are due have fired
Tick ==
    /\ \A timer \in BagToSet(timers) : timer.due > workerNow
    /\ workerNow + TickMinutes < (MaxWorkerDays + 1) * MinutesPerDay
    /\ workerNow' = workerNow + TickMinutes
    /\ UNCHANGED <<timers, shown, enabled, shownDisabled>>
    /\ LeavesPage

InitWorker ==
    \E zone \in Offsets : Constructed(<<>>, zone, Max(ClockReadings(zone)))

NextWorker ==
    \/ Message
    \/ TimerFires
    \/ Tick

SpecWorker == InitWorker /\ [][NextWorker]_vars

\* C30: at most one timer is pending, no day has more than one
\* notification, and no notification is shown after a message with
\* enabled = false (until a message enables the reminder again).
C30_OneTimerOneNotification ==
    /\ BagCardinality(timers) <= 1
    /\ \A day \in DOMAIN shown : shown[day] <= 1
    /\ ~shownDisabled

=============================================================================
